---- MODULE Spec2Model ----
(***************************************************************************)
(* A model of the projectionlab-mcp tool-call handler (src/src/index.ts):  *)
(* the process state (dataFilePath, data), the export file(s) on disk, and *)
(* one action per tool of the CallToolRequestSchema handler.               *)
(*                                                                         *)
(* JavaScript values that may arrive with the wrong type (the value and    *)
(* modifier of a DateReference, the value of a MilestoneCriterion) are     *)
(* tagged records [t |-> "string" | "number", v |-> ...]; a string that a  *)
(* pattern is matched against is a sequence of one-character strings.      *)
(* An optional property is a record field that may be absent; a property   *)
(* holding undefined is modelled as absent (JSON.stringify drops it).      *)
(***************************************************************************)
EXTENDS Integers, Sequences, FiniteSets, TLC

VARIABLES
  dataFilePath,   \* let dataFilePath: string | null
  data,           \* let data: ProjectionLabExport | null
  disk,           \* the file system: path -> file content
  now,            \* the last value Date.now() returned
  req,            \* the last tool call answered: [name, arguments]
  res,            \* the result returned for it
  pending         \* the calls suspended at an await, oldest first

vars == <<dataFilePath, data, disk, now, req, res, pending>>

----------------------------------------------------------------------------
(* Bounds of the model *)

\* Date.now() takes the values 0..MaxClock
MaxClock == 1
\* duplicate_plan is called while the document holds fewer plans than this
MaxPlans == 3
\* an add_* tool is called while its list holds fewer entities than this
MaxEvents == 2
\* where every add tool is offered, one is called while the document holds
\* fewer entities than this
MaxAdded == 2
\* add_debt is called while the document holds fewer debts than this
MaxDebts == 3
\* a call is started while fewer calls than this are suspended
MaxPending == 2
\* accounts of one kind (the add_account tool is not offered beyond them)
MaxAccounts == 2

----------------------------------------------------------------------------
(* JavaScript values *)

NullPath == "null"
NullData == [null |-> TRUE]

Str(chars) == [t |-> "string", v |-> chars]
Num(n) == [t |-> "number", v |-> n]

Has(obj, key) == key \in DOMAIN obj

\* obj with property key set to val (created when absent)
Put(obj, key, val) == (key :> val) @@ obj

\* the index of the first element of list whose id is id, 0 when there is none
\* (Array.prototype.findIndex, 1-based; find returns the element at that index)
RECURSIVE FindIndexFrom(_, _, _)
FindIndexFrom(list, id, i) ==
  IF i > Len(list) THEN 0
  ELSE IF list[i].id = id THEN i
  ELSE FindIndexFrom(list, id, i + 1)

FindIndex(list, id) == FindIndexFrom(list, id, 1)

\* list.unshift(x) in place of list.push(x): x becomes the first element
Push_Front(list, x) == <<x>> \o list

\* list.push(x)
Push(list, x) == Append(list, x)

\* every key assigned whether args has it or not: a key args lacks becomes
\* undefined and is dropped when the object is serialised
Assign_Unconditional(obj, args, keys) ==
  [k \in (DOMAIN obj \ keys) \cup (keys \cap DOMAIN args) |->
     IF k \in keys THEN args[k] ELSE obj[k]]

\* the values of the update payloads that JavaScript takes for false
FalsyValue ==
  [amount |-> 0, interestRate |-> 0, monthlyPayment |-> 0,
   strategy |-> "", enabled |-> FALSE]

\* if (args?.key) obj.key = args.key: a key whose value is 0, "" or false
\* is skipped
Assign_IfTruthy(obj, args, keys) ==
  [k \in DOMAIN obj \cup {j \in keys \cap DOMAIN args : args[j] # FalsyValue[j]} |->
     IF k \in keys /\ k \in DOMAIN args /\ args[k] # FalsyValue[k]
     THEN args[k] ELSE obj[k]]

\* if (args?.key !== undefined) obj.key = args.key, for each key of keys
Assign(obj, args, keys) ==
  [k \in DOMAIN obj \cup (keys \cap DOMAIN args) |->
     IF k \in keys /\ k \in DOMAIN args THEN args[k] ELSE obj[k]]

\* the properties of args among keys (a property args lacks stays undefined)
Pick(args, keys) == [k \in keys \cap DOMAIN args |-> args[k]]

\* args?.key ?? fallback
OrElse(args, key, fallback) == IF Has(args, key) THEN args[key] ELSE fallback

\* list.pop() in place of list.splice(idx, 1): list without its last element
Splice_Last(list, idx) == [i \in 1..(Len(list) - 1) |-> list[i]]

\* list.splice(idx, 1): list without its element at idx
Splice(list, idx) ==
  [i \in 1..(Len(list) - 1) |-> IF i < idx THEN list[i] ELSE list[i + 1]]

\* JSON.stringify(value, null, 2) as file content, and JSON.parse of it
Stringify(value) == [kind |-> "json", value |-> value]
Garbage == [kind |-> "text"]
Absent == [kind |-> "absent"]
Parses(content) == content.kind = "json"
Parse(content) == content.value

----------------------------------------------------------------------------
(* Results of a tool call *)

\* return { content: [{ type: "text", text }] }
Ok(text) == [text |-> text]

\* a catch block that answers with the message and no isError flag
ErrorResult_NoFlag(message) == [text |-> <<"Error: ">> \o message]

\* the catch block: { content: [{type: "text", text: `Error: ${message}`}], isError: true }
\* message is the template literal's sequence of segments
ErrorResult(message) == [text |-> <<"Error: ">> \o message, isError |-> TRUE]

IsError(r) == Has(r, "isError") /\ r.isError

NotLoaded == <<"Data not loaded. Use set_data_file tool first.">>
NothingToSave == <<"No data loaded to save.">>
ReadFailed == <<"ENOENT: no such file or directory">>
ParseFailed == <<"Unexpected token in JSON">>
WriteFailed == <<"EACCES: permission denied, open">>

Request(name, arguments) == [name |-> name, arguments |-> arguments]

----------------------------------------------------------------------------
(* The export documents on disk when the server starts *)

Chars_now == <<"n", "o", "w">>
Chars_endOfPlan == <<"e", "n", "d", "O", "f", "P", "l", "a", "n">>
Chars_never == <<"n", "e", "v", "e", "r">>
Chars_beforeCurrentYear ==
  <<"b", "e", "f", "o", "r", "e", "C", "u", "r", "r", "e", "n", "t", "Y", "e", "a", "r">>
Chars_2059 == <<"2", "0", "5", "9">>
Chars_2030 == <<"2", "0", "3", "0">>

\* { type: "keyword", value: "now" } and { type: "keyword", value: "endOfPlan" }
KeywordNow == [type |-> "keyword", value |-> Str(Chars_now)]
KeywordEndOfPlan == [type |-> "keyword", value |-> Str(Chars_endOfPlan)]
Year2030 == [type |-> "year", value |-> Str(Chars_2030)]

Income1 ==
  [id |-> "i1", name |-> "Salary", amount |-> 100, amountType |-> "today$",
   owner |-> "me", frequency |-> "monthly", start |-> KeywordNow, end |-> Year2030]
Expense1 ==
  [id |-> "e1", name |-> "Rent", amount |-> 50, amountType |-> "today$",
   frequency |-> "monthly", spendingType |-> "essential",
   start |-> KeywordNow, end |-> KeywordEndOfPlan]
Priority1 ==
  [id |-> "r1", name |-> "401k", owner |-> "me", mode |-> "contribution",
   contribution |-> 10, start |-> KeywordNow, end |-> KeywordEndOfPlan]
Milestone1 ==
  [id |-> "m1", name |-> "Retire", removable |-> TRUE,
   criteria |-> <<[type |-> "netWorth", value |-> Num(1000)]>>]
Computed1 == [id |-> "c1", name |-> "Debt free"]

Savings1 == [id |-> "a1", type |-> "savings", name |-> "Cash", balance |-> 10, owner |-> "me"]
Invest1 == [id |-> "a2", type |-> "401k", name |-> "Work", balance |-> 20, owner |-> "me"]
Debt1 == [id |-> "d1", type |-> "debt", name |-> "Car", amount |-> 30, owner |-> "me"]
Debt2 ==
  [id |-> "d2", type |-> "debt", name |-> "Card", amount |-> 5, owner |-> "me",
   interestRate |-> 20]
Asset1 == [id |-> "x1", type |-> "car", name |-> "Van", amount |-> 40, owner |-> "me"]

PlanBase ==
  [id |-> "p1", name |-> "Base", lastUpdated |-> 0,
   income |-> [events |-> <<Income1>>],
   expenses |-> [events |-> <<Expense1>>],
   priorities |-> [events |-> <<Priority1>>],
   milestones |-> <<Milestone1>>,
   computedMilestones |-> <<Computed1>>]
\* a second plan that reuses the nested id i1 (nested ids are plan-scoped)
PlanAlt ==
  [id |-> "p2", name |-> "Alt", lastUpdated |-> 0,
   income |-> [events |-> <<[Income1 EXCEPT !.amount = 70]>>]]
\* a plan with none of its optional lists and records
PlanBare == [id |-> "p1", name |-> "Solo"]

DocFull ==
  [meta |-> [version |-> "4", lastUpdated |-> 0],
   today |-> [yourName |-> "Ann",
              savingsAccounts |-> <<Savings1>>,
              investmentAccounts |-> <<Invest1>>,
              debts |-> <<Debt1, Debt2>>,
              assets |-> <<Asset1>>],
   plans |-> <<PlanBase, PlanAlt>>]
DocBare ==
  [meta |-> [version |-> "4", lastUpdated |-> 0],
   today |-> [yourName |-> "Bob"],
   plans |-> <<PlanBare>>]

\* a plan that has two of the three settings records, each with a key no
\* tool sets
PlanTuned ==
  [id |-> "p1", name |-> "Tuned", lastUpdated |-> 0,
   variables |-> [startYear |-> 2024, inflation |-> 3],
   montecarlo |-> [iterations |-> 500]]
DocTuned ==
  [meta |-> [version |-> "4", lastUpdated |-> 0],
   today |-> [yourName |-> "Dee"],
   plans |-> <<PlanTuned, PlanAlt>>]

\* a document whose debts hold two entities of one id (what two add_debt
\* calls in one millisecond leave behind)
Debt1Twin == [id |-> "d1", type |-> "debt", name |-> "Boat", amount |-> 60, owner |-> "me"]
DocTwins ==
  [meta |-> [version |-> "4", lastUpdated |-> 0],
   today |-> [yourName |-> "Cy",
              savingsAccounts |-> <<Savings1>>,
              investmentAccounts |-> <<Invest1>>,
              debts |-> <<Debt2, Debt1, Debt1Twin>>,
              assets |-> <<Asset1>>],
   plans |-> <<PlanBase, PlanAlt>>]

PathFull == "/full.json"
PathBare == "/bare.json"
PathGarbage == "/notes.txt"
PathLocked == "/locked.json"
PathMissing == "/missing.json"
PathNoDir == "/nodir/export.json"
PathTwins == "/twins.json"
PathTuned == "/tuned.json"
Paths ==
  {PathFull, PathBare, PathGarbage, PathLocked, PathMissing, PathNoDir, PathTwins,
   PathTuned}

InitialDisk ==
  [p \in Paths |->
     CASE p = PathFull -> Stringify(DocFull)
       [] p = PathBare -> Stringify(DocBare)
       [] p = PathGarbage -> Garbage
       [] p = PathLocked -> Stringify(DocBare)
       [] p = PathTwins -> Stringify(DocTwins)
       [] p = PathTuned -> Stringify(DocTuned)
       [] OTHER -> Absent]

Init ==
  /\ dataFilePath = NullPath
  /\ data = NullData
  /\ disk = InitialDisk
  /\ now = 0
  /\ req = Request("none", <<>>)
  /\ res = Ok("")
  /\ pending = <<>>

----------------------------------------------------------------------------
(* The process state's functions *)

\* getData(): the document, or a throw when none is loaded
Loaded == data # NullData

\* saveData() up to its write: data.meta.lastUpdated = Date.now()
Stamp(d, t) == [d EXCEPT !.meta.lastUpdated = t]

\* The values Date.now() may return at the next call
Times == {t \in {now, now + 1} : t <= MaxClock}

\* `${prefix}-${Date.now()}`
NumeralOf(t) == ToString(t)
GenId(prefix, t) == prefix \o "-" \o NumeralOf(t)

\* findPlan's scan: the index of the first plan with this id, 0 when none
PlanIndex(d, planId) == FindIndex(d.plans, planId)
PlanNotFound(planId) == <<"Plan not found: ", planId>>

\* a throw that is answered as a success carrying the message
Throw_AsSuccess(request, message) ==
  /\ req' = request
  /\ res' = Ok(message)
  /\ UNCHANGED <<dataFilePath, data, disk, now, pending>>

\* A handler that throws before it changes anything
Throw(request, message) ==
  /\ req' = request
  /\ res' = ErrorResult(message)
  /\ UNCHANGED <<dataFilePath, data, disk, now, pending>>

\* a handler that creates a list the document lacks before it answers
Answer_Creating(request, text) ==
  /\ req' = request
  /\ res' = Ok(text)
  /\ data' = IF data = NullData THEN data
             ELSE [data EXCEPT !.today =
                     Put(@, "debts", IF Has(@, "debts") THEN @.debts ELSE <<>>)]
  /\ UNCHANGED <<dataFilePath, disk, now, pending>>

\* A handler that answers without changing anything
Answer(request, text) ==
  /\ req' = request
  /\ res' = Ok(text)
  /\ UNCHANGED <<dataFilePath, data, disk, now, pending>>

\* fs.writeFile(path, ...) completes on a file the process may write and
\* rejects on a read-only one and in a directory that does not exist
Writable(path) == path \notin {PathLocked, PathNoDir}
\* the message fs.writeFile rejects with
WriteError(path) == IF path = PathNoDir THEN ReadFailed ELSE WriteFailed

\* A handler that has changed the document to d (Date.now() returning t
\* throughout the call), then awaits saveData() and returns text, no other
\* call being handled meanwhile.
\* When saveData() throws, the catch block answers and the document keeps
\* the change (and the new meta.lastUpdated, set before the write).
SaveAndReturn(request, d, t, text) ==
  /\ req' = request
  /\ now' = t
  /\ UNCHANGED <<dataFilePath, pending>>
  /\ IF dataFilePath = NullPath
     THEN /\ data' = d
          /\ disk' = disk
          /\ res' = ErrorResult(NothingToSave)
     ELSE /\ data' = Stamp(d, t)
          /\ IF Writable(dataFilePath)
             THEN /\ disk' = [disk EXCEPT ![dataFilePath] = Stringify(Stamp(d, t))]
                  /\ res' = Ok(text)
             ELSE /\ disk' = disk
                  /\ res' = ErrorResult(WriteError(dataFilePath))

----------------------------------------------------------------------------
(* set_data_file *)

\* set_data_file handled with no other call meanwhile
SetDataFile(path) ==
  LET request == Request("set_data_file", [path |-> path]) IN
  /\ req' = request
  /\ dataFilePath' = path
  /\ UNCHANGED <<disk, now, pending>>
  /\ IF disk[path] = Absent
     THEN data' = data /\ res' = ErrorResult(ReadFailed)
     ELSE IF ~Parses(disk[path])
     THEN data' = data /\ res' = ErrorResult(ParseFailed)
     ELSE /\ data' = Parse(disk[path])
          /\ res' = Ok(<<"Data loaded from: ", path>>)

----------------------------------------------------------------------------
(* Plan management: get_plan, duplicate_plan, delete_plan *)

GetPlan(planId) ==
  LET request == Request("get_plan", [planId |-> planId]) IN
  IF ~Loaded THEN Throw(request, NotLoaded)
  ELSE IF PlanIndex(data, planId) = 0 THEN Throw(request, PlanNotFound(planId))
  ELSE Answer(request, data.plans[PlanIndex(data, planId)])

\* JSON.parse(JSON.stringify(sourcePlan)) with id, name and lastUpdated replaced
ClonePlan(sourcePlan, newName, t) ==
  LET copy == Parse(Stringify(sourcePlan)) IN
  Put(Put(Put(copy, "id", GenId("plan", t)), "name", newName), "lastUpdated", t)

DuplicatePlanDoc(d, planId, newName, t) ==
  [d EXCEPT !.plans = Append(@, ClonePlan(d.plans[PlanIndex(d, planId)], newName, t))]

DuplicatePlan(planId, newName) ==
  LET request == Request("duplicate_plan", [planId |-> planId, newName |-> newName]) IN
  IF ~Loaded THEN Throw(request, NotLoaded)
  ELSE IF PlanIndex(data, planId) = 0 THEN Throw(request, PlanNotFound(planId))
  ELSE /\ Len(data.plans) < MaxPlans
       /\ \E t \in Times :
            LET d == DuplicatePlanDoc(data, planId, newName, t) IN
            SaveAndReturn(request, d, t,
              [id |-> GenId("plan", t), name |-> newName,
               copiedFrom |-> data.plans[PlanIndex(data, planId)].name])

LastPlan == <<"Cannot delete the last plan">>

\* delete_plan without its d.plans.length === 1 check
DeletePlanRefusal_NoLastCheck(d, planId) ==
  IF PlanIndex(d, planId) = 0 THEN PlanNotFound(planId) ELSE <<>>

\* delete_plan's two throws, in the code's order; <<>> when it goes on to splice
DeletePlanRefusal(d, planId) ==
  IF PlanIndex(d, planId) = 0 THEN PlanNotFound(planId)
  ELSE IF Len(d.plans) = 1 THEN LastPlan
  ELSE <<>>

\* delete_plan removing the last plan of the list instead of the one found
DeletePlanDoc_Pop(d, planId) == [d EXCEPT !.plans = Splice(@, Len(@))]

DeletePlanDoc(d, planId) == [d EXCEPT !.plans = Splice(@, PlanIndex(d, planId))]

DeletePlan(planId) ==
  LET request == Request("delete_plan", [planId |-> planId]) IN
  IF ~Loaded THEN Throw(request, NotLoaded)
  ELSE IF DeletePlanRefusal(data, planId) # <<>>
  THEN Throw(request, DeletePlanRefusal(data, planId))
  ELSE \E t \in Times :
         SaveAndReturn(request, DeletePlanDoc(data, planId), t,
           <<"Deleted plan: ", data.plans[PlanIndex(data, planId)].name>>)

----------------------------------------------------------------------------
(* Income: get_income, update_income, add_income *)

\* plan.income?.events (and expenses, priorities): undefined scans as no events
EventsOf(plan, key) ==
  IF Has(plan, key) /\ Has(plan[key], "events") THEN plan[key].events ELSE <<>>

\* plan[key].events replaced by events; the add handlers create plan[key]
\* = { events: [] } and plan[key].events = [] when absent
WithEvents(plan, key, events) ==
  Put(plan, key, IF Has(plan, key) THEN Put(plan[key], "events", events)
                 ELSE [events |-> events])

IncomeNotFound(incomeId) == <<"Income not found: ", incomeId>>

GetIncome(args) ==
  LET request == Request("get_income", args)
      p == PlanIndex(data, args.planId)
      events == EventsOf(data.plans[p], "income")
      i == FindIndex(events, args.incomeId)
  IN
  IF ~Loaded THEN Throw(request, NotLoaded)
  ELSE IF p = 0 THEN Throw(request, PlanNotFound(args.planId))
  ELSE IF i = 0 THEN Throw(request, IncomeNotFound(args.incomeId))
  ELSE Answer(request, events[i])

UpdateIncomeFields == {"amount", "name", "start", "end"}

UpdateIncome(args) ==
  LET request == Request("update_income", args)
      p == PlanIndex(data, args.planId)
      events == EventsOf(data.plans[p], "income")
      i == FindIndex(events, args.incomeId)
      income == Assign(events[i], args, UpdateIncomeFields)
  IN
  IF ~Loaded THEN Throw(request, NotLoaded)
  ELSE IF p = 0 THEN Throw(request, PlanNotFound(args.planId))
  ELSE IF i = 0 THEN Throw(request, IncomeNotFound(args.incomeId))
  ELSE \E t \in Times :
         SaveAndReturn(request,
           [data EXCEPT !.plans[p].income.events[i] = income], t, income)

\* the IncomeEvent add_income builds: start and end are not read from args
NewIncome(args, t) ==
  Pick(args, {"type", "name", "amount"}) @@
  [id |-> GenId("income", t), amountType |-> "today$",
   owner |-> OrElse(args, "owner", "me"), frequency |-> "yearly",
   start |-> KeywordNow, end |-> KeywordEndOfPlan]

AddIncome(args) ==
  LET request == Request("add_income", args)
      p == PlanIndex(data, args.planId)
      events == EventsOf(data.plans[p], "income")
  IN
  IF ~Loaded THEN Throw(request, NotLoaded)
  ELSE IF p = 0 THEN Throw(request, PlanNotFound(args.planId))
  ELSE /\ Len(events) < MaxEvents
       /\ \E t \in Times :
            SaveAndReturn(request,
              [data EXCEPT !.plans[p] =
                 WithEvents(@, "income", Push(events, NewIncome(args, t)))],
              t, NewIncome(args, t))

----------------------------------------------------------------------------
(* Expenses: update_expense, add_expense *)

ExpenseNotFound(expenseId) == <<"Expense not found: ", expenseId>>

UpdateExpenseFields == {"amount", "name", "start", "end"}

UpdateExpense(args) ==
  LET request == Request("update_expense", args)
      p == PlanIndex(data, args.planId)
      events == EventsOf(data.plans[p], "expenses")
      i == FindIndex(events, args.expenseId)
      expense == Assign(events[i], args, UpdateExpenseFields)
  IN
  IF ~Loaded THEN Throw(request, NotLoaded)
  ELSE IF p = 0 THEN Throw(request, PlanNotFound(args.planId))
  ELSE IF i = 0 THEN Throw(request, ExpenseNotFound(args.expenseId))
  ELSE \E t \in Times :
         SaveAndReturn(request,
           [data EXCEPT !.plans[p].expenses.events[i] = expense], t, expense)

NewExpense(args, t) ==
  Pick(args, {"type", "name", "amount"}) @@
  [id |-> GenId("expense", t), amountType |-> "today$", frequency |-> "yearly",
   spendingType |-> OrElse(args, "spendingType", "discretionary"),
   start |-> OrElse(args, "start", KeywordNow),
   end |-> OrElse(args, "end", KeywordEndOfPlan)]

AddExpense(args) ==
  LET request == Request("add_expense", args)
      p == PlanIndex(data, args.planId)
      events == EventsOf(data.plans[p], "expenses")
  IN
  IF ~Loaded THEN Throw(request, NotLoaded)
  ELSE IF p = 0 THEN Throw(request, PlanNotFound(args.planId))
  ELSE /\ Len(events) < MaxEvents
       /\ \E t \in Times :
            SaveAndReturn(request,
              [data EXCEPT !.plans[p] =
                 WithEvents(@, "expenses", Push(events, NewExpense(args, t)))],
              t, NewExpense(args, t))

----------------------------------------------------------------------------
(* Priorities: update_priority, add_priority *)

PriorityNotFound(priorityId) == <<"Priority not found: ", priorityId>>

UpdatePriorityFields ==
  {"amount", "amountType", "mode", "contribution", "contributionType",
   "employerMatch", "employerMatchLimit", "start", "end"}

UpdatePriority(args) ==
  LET request == Request("update_priority", args)
      p == PlanIndex(data, args.planId)
      events == EventsOf(data.plans[p], "priorities")
      i == FindIndex(events, args.priorityId)
      priority == Assign(events[i], args, UpdatePriorityFields)
  IN
  IF ~Loaded THEN Throw(request, NotLoaded)
  ELSE IF p = 0 THEN Throw(request, PlanNotFound(args.planId))
  ELSE IF i = 0 THEN Throw(request, PriorityNotFound(args.priorityId))
  ELSE \E t \in Times :
         SaveAndReturn(request,
           [data EXCEPT !.plans[p].priorities.events[i] = priority], t, priority)

AddPriorityFields ==
  {"accountId", "debtId", "amount", "amountType", "contribution",
   "contributionType", "employerMatch", "employerMatchLimit"}

NewPriority(args, t) ==
  Pick(args, {"type", "name"} \cup AddPriorityFields) @@
  [id |-> GenId("priority", t),
   owner |-> OrElse(args, "owner", "me"),
   mode |-> OrElse(args, "mode", "contribution"),
   start |-> OrElse(args, "start", KeywordNow),
   end |-> OrElse(args, "end", KeywordEndOfPlan)]

AddPriority(args) ==
  LET request == Request("add_priority", args)
      p == PlanIndex(data, args.planId)
      events == EventsOf(data.plans[p], "priorities")
  IN
  IF ~Loaded THEN Throw(request, NotLoaded)
  ELSE IF p = 0 THEN Throw(request, PlanNotFound(args.planId))
  ELSE /\ Len(events) < MaxEvents
       /\ \E t \in Times :
            SaveAndReturn(request,
              [data EXCEPT !.plans[p] =
                 WithEvents(@, "priorities", Push(events, NewPriority(args, t)))],
              t, NewPriority(args, t))

----------------------------------------------------------------------------
(* Milestones: get_milestone, update_milestone, add_milestone *)

\* plan.milestones ?? []: undefined scans as no milestones
MilestonesOf(plan) == IF Has(plan, "milestones") THEN plan.milestones ELSE <<>>

MilestoneNotFound(milestoneId) == <<"Milestone not found: ", milestoneId>>

GetMilestone(args) ==
  LET request == Request("get_milestone", args)
      p == PlanIndex(data, args.planId)
      i == FindIndex(MilestonesOf(data.plans[p]), args.milestoneId)
  IN
  IF ~Loaded THEN Throw(request, NotLoaded)
  ELSE IF p = 0 THEN Throw(request, PlanNotFound(args.planId))
  ELSE IF i = 0 THEN Throw(request, MilestoneNotFound(args.milestoneId))
  ELSE Answer(request, data.plans[p].milestones[i])

UpdateMilestoneFields == {"name", "criteria"}

UpdateMilestone(args) ==
  LET request == Request("update_milestone", args)
      p == PlanIndex(data, args.planId)
      i == FindIndex(MilestonesOf(data.plans[p]), args.milestoneId)
      milestone == Assign(data.plans[p].milestones[i], args, UpdateMilestoneFields)
  IN
  IF ~Loaded THEN Throw(request, NotLoaded)
  ELSE IF p = 0 THEN Throw(request, PlanNotFound(args.planId))
  ELSE IF i = 0 THEN Throw(request, MilestoneNotFound(args.milestoneId))
  ELSE \E t \in Times :
         SaveAndReturn(request,
           [data EXCEPT !.plans[p].milestones[i] = milestone], t, milestone)

NewMilestone(args, t) ==
  Pick(args, {"name", "icon", "color", "criteria"}) @@
  [id |-> GenId("milestone", t), removable |-> TRUE]

AddMilestone(args) ==
  LET request == Request("add_milestone", args)
      p == PlanIndex(data, args.planId)
      milestones == MilestonesOf(data.plans[p])
  IN
  IF ~Loaded THEN Throw(request, NotLoaded)
  ELSE IF p = 0 THEN Throw(request, PlanNotFound(args.planId))
  ELSE /\ Len(milestones) < MaxEvents
       /\ \E t \in Times :
            SaveAndReturn(request,
              [data EXCEPT !.plans[p] =
                 Put(@, "milestones", Push(milestones, NewMilestone(args, t)))],
              t, NewMilestone(args, t))

----------------------------------------------------------------------------
(* Debts: get_debt, update_debt, add_debt, delete_debt *)

\* d.today.debts?.find(...): undefined scans as no debts
DebtsOf(d) == IF Has(d.today, "debts") THEN d.today.debts ELSE <<>>

\* a scan whose callback is truthy for every debt: it finds the first one
DebtIndex_First(d, debtId) == IF Len(DebtsOf(d)) > 0 THEN 1 ELSE 0

\* debts.find((d) => d.id === debtId), debts.findIndex(...)
DebtIndex(d, debtId) == FindIndex(DebtsOf(d), debtId)

DebtNotFound(debtId) == <<"Debt not found: ", debtId>>

GetDebt(args) ==
  LET request == Request("get_debt", args)
      i == DebtIndex(data, args.debtId)
  IN
  IF ~Loaded THEN Throw(request, NotLoaded)
  ELSE IF i = 0 THEN Throw(request, DebtNotFound(args.debtId))
  ELSE Answer(request, data.today.debts[i])

UpdateDebtFields == {"amount", "interestRate", "monthlyPayment"}

UpdateDebt(args) ==
  LET request == Request("update_debt", args)
      i == DebtIndex(data, args.debtId)
      debt == Assign(data.today.debts[i], args, UpdateDebtFields)
  IN
  IF ~Loaded THEN Throw(request, NotLoaded)
  ELSE IF i = 0 THEN Throw(request, DebtNotFound(args.debtId))
  ELSE \E t \in Times :
         SaveAndReturn(request, [data EXCEPT !.today.debts[i] = debt], t, debt)

\* subtype, name and amount are read from debtType, name and amount
NewDebt(args, t) ==
  Pick(args, {"name", "amount", "interestRate", "monthlyPayment"}) @@
  (IF Has(args, "debtType") THEN [subtype |-> args.debtType] ELSE <<>>) @@
  [id |-> GenId("debt", t), type |-> "debt", owner |-> OrElse(args, "owner", "me")]

AddDebt(args) ==
  LET request == Request("add_debt", args) IN
  IF ~Loaded THEN Throw(request, NotLoaded)
  ELSE /\ Len(DebtsOf(data)) < MaxDebts
       /\ \E t \in Times :
            SaveAndReturn(request,
              [data EXCEPT !.today =
                 Put(@, "debts", Push(DebtsOf(data), NewDebt(args, t)))],
              t, NewDebt(args, t))

DeleteDebt(args) ==
  LET request == Request("delete_debt", args)
      idx == DebtIndex(data, args.debtId)
  IN
  IF ~Loaded THEN Throw(request, NotLoaded)
  ELSE IF idx = 0 THEN Throw(request, DebtNotFound(args.debtId))
  ELSE \E t \in Times :
         SaveAndReturn(request,
           [data EXCEPT !.today.debts = Splice(@, idx)], t,
           <<"Deleted debt: ", data.today.debts[idx].name>>)

----------------------------------------------------------------------------
(* Accounts: get_account, update_account_balance, rename_account,
   add_account, delete_account *)

\* d.today.savingsAccounts?.find(...), d.today.investmentAccounts?.find(...):
\* undefined scans as no accounts
AccountsOf(d, list) == IF Has(d.today, list) THEN d.today[list] ELSE <<>>

\* a lookup that scans the investment accounts before the savings accounts
AccountLookup_InvestmentFirst(d, accountId) ==
  IF FindIndex(AccountsOf(d, "investmentAccounts"), accountId) > 0
  THEN [list |-> "investmentAccounts",
        idx |-> FindIndex(AccountsOf(d, "investmentAccounts"), accountId)]
  ELSE [list |-> "savingsAccounts",
        idx |-> FindIndex(AccountsOf(d, "savingsAccounts"), accountId)]

\* the lookup the four handlers share: the savings accounts are scanned
\* first, the investment accounts when no savings account has the id;
\* idx is 0 when neither list has it
AccountLookup(d, accountId) ==
  IF FindIndex(AccountsOf(d, "savingsAccounts"), accountId) > 0
  THEN [list |-> "savingsAccounts",
        idx |-> FindIndex(AccountsOf(d, "savingsAccounts"), accountId)]
  ELSE [list |-> "investmentAccounts",
        idx |-> FindIndex(AccountsOf(d, "investmentAccounts"), accountId)]

AccountNotFound(accountId) == <<"Account not found: ", accountId>>

GetAccount(args) ==
  LET request == Request("get_account", args)
      found == AccountLookup(data, args.accountId)
  IN
  IF ~Loaded THEN Throw(request, NotLoaded)
  ELSE IF found.idx = 0 THEN Throw(request, AccountNotFound(args.accountId))
  ELSE Answer(request, data.today[found.list][found.idx])

\* account[key] = value on the account found, then saveData()
SetAccountField(request, accountId, key, value) ==
  LET found == AccountLookup(data, accountId)
      account == Put(data.today[found.list][found.idx], key, value)
  IN
  IF ~Loaded THEN Throw(request, NotLoaded)
  ELSE IF found.idx = 0 THEN Throw(request, AccountNotFound(accountId))
  ELSE \E t \in Times :
         SaveAndReturn(request,
           [data EXCEPT !.today[found.list][found.idx] = account], t, account)

UpdateAccountBalance(args) ==
  SetAccountField(Request("update_account_balance", args),
                  args.accountId, "balance", args.balance)

RenameAccount(args) ==
  SetAccountField(Request("rename_account", args), args.accountId, "name", args.name)

\* both branches build id `account-${Date.now()}`
NewAccount(args, t) ==
  [id |-> GenId("account", t), type |-> args.accountType, name |-> args.name,
   balance |-> args.balance, owner |-> OrElse(args, "owner", "me")]

AddAccount(args) ==
  LET request == Request("add_account", args)
      list == IF args.accountType = "savings" THEN "savingsAccounts"
              ELSE "investmentAccounts"
  IN
  IF ~Loaded THEN Throw(request, NotLoaded)
  ELSE /\ Len(AccountsOf(data, list)) < MaxAccounts
       /\ \E t \in Times :
            SaveAndReturn(request,
              [data EXCEPT !.today =
                 Put(@, list, Push(AccountsOf(data, list), NewAccount(args, t)))],
              t, NewAccount(args, t))

DeletedAccount(list, name) ==
  IF list = "savingsAccounts" THEN <<"Deleted savings account: ", name>>
  ELSE <<"Deleted investment account: ", name>>

DeleteAccount(args) ==
  LET request == Request("delete_account", args)
      found == AccountLookup(data, args.accountId)
  IN
  IF ~Loaded THEN Throw(request, NotLoaded)
  ELSE IF found.idx = 0 THEN Throw(request, AccountNotFound(args.accountId))
  ELSE \E t \in Times :
         SaveAndReturn(request,
           [data EXCEPT !.today[found.list] = Splice(@, found.idx)], t,
           DeletedAccount(found.list, data.today[found.list][found.idx].name))

----------------------------------------------------------------------------
(* Withdrawal strategy: get_withdrawal_strategy, update_withdrawal_strategy *)

\* plan.withdrawalStrategy ?? {}
StrategyOf(plan) ==
  IF Has(plan, "withdrawalStrategy") THEN plan.withdrawalStrategy ELSE <<>>

GetWithdrawalStrategy(args) ==
  LET request == Request("get_withdrawal_strategy", args)
      p == PlanIndex(data, args.planId)
  IN
  IF ~Loaded THEN Throw(request, NotLoaded)
  ELSE IF p = 0 THEN Throw(request, PlanNotFound(args.planId))
  ELSE Answer(request, StrategyOf(data.plans[p]))

UpdateStrategyFields == {"strategy", "enabled"}

\* plan[key] ?? {} for the settings records variables, withdrawalStrategy
\* and montecarlo
RecordOf(plan, key) == IF Has(plan, key) THEN plan[key] ELSE <<>>

\* plan[key] = { ...payload }: the record is replaced by the payload's keys
Merged_Replace(plan, key, args, fields) == Pick(args, fields)

\* if (!plan[key]) plan[key] = {}, then one guarded assignment for each of
\* fields
Merged(plan, key, args, fields) == Assign(RecordOf(plan, key), args, fields)

\* if (!plan.withdrawalStrategy) plan.withdrawalStrategy = {}, then the
\* assignments
UpdateWithdrawalStrategy(args) ==
  LET request == Request("update_withdrawal_strategy", args)
      p == PlanIndex(data, args.planId)
      strategy == Merged(data.plans[p], "withdrawalStrategy", args, UpdateStrategyFields)
  IN
  IF ~Loaded THEN Throw(request, NotLoaded)
  ELSE IF p = 0 THEN Throw(request, PlanNotFound(args.planId))
  ELSE \E t \in Times :
         SaveAndReturn(request,
           [data EXCEPT !.plans[p] = Put(@, "withdrawalStrategy", strategy)],
           t, strategy)

----------------------------------------------------------------------------
(* Plan variables and Monte Carlo settings: get_plan_variables,
   update_plan_variables, get_montecarlo_settings,
   update_montecarlo_settings *)

GetRecord(name, args, key) ==
  LET request == Request(name, args)
      p == PlanIndex(data, args.planId)
  IN
  IF ~Loaded THEN Throw(request, NotLoaded)
  ELSE IF p = 0 THEN Throw(request, PlanNotFound(args.planId))
  ELSE Answer(request, RecordOf(data.plans[p], key))

UpdateRecord(name, args, key, fields) ==
  LET request == Request(name, args)
      p == PlanIndex(data, args.planId)
      record == Merged(data.plans[p], key, args, fields)
  IN
  IF ~Loaded THEN Throw(request, NotLoaded)
  ELSE IF p = 0 THEN Throw(request, PlanNotFound(args.planId))
  ELSE \E t \in Times :
         SaveAndReturn(request, [data EXCEPT !.plans[p] = Put(@, key, record)],
                       t, record)

PlanVariableFields ==
  {"loopYear", "investmentReturn", "inflation", "dividendRate", "filingStatus",
   "effectiveIncomeTaxRate", "capGainsTaxRate"}
MontecarloFields == {"trials", "mode"}

GetPlanVariables(args) == GetRecord("get_plan_variables", args, "variables")
UpdatePlanVariables(args) ==
  UpdateRecord("update_plan_variables", args, "variables", PlanVariableFields)
GetMontecarloSettings(args) == GetRecord("get_montecarlo_settings", args, "montecarlo")
UpdateMontecarloSettings(args) ==
  UpdateRecord("update_montecarlo_settings", args, "montecarlo", MontecarloFields)

----------------------------------------------------------------------------
(* Personal information: update_person, update_spouse *)

\* the property of d.today each argument is assigned to
PersonKeys ==
  [name |-> "yourName", birthYear |-> "birthYear", birthMonth |-> "birthMonth",
   age |-> "age"]
SpouseKeys ==
  [name |-> "spouseName", birthYear |-> "spouseBirthYear",
   birthMonth |-> "spouseBirthMonth", age |-> "spouseAge"]

\* if (args?.k !== undefined) d.today[keys[k]] = args.k, for each k
WithPerson(today, args, keys) ==
  [j \in DOMAIN today \cup {keys[k] : k \in DOMAIN keys \cap DOMAIN args} |->
     IF \E k \in DOMAIN keys \cap DOMAIN args : keys[k] = j
     THEN args[CHOOSE k \in DOMAIN keys \cap DOMAIN args : keys[k] = j]
     ELSE today[j]]

\* { name, birthYear, birthMonth, age } read back from d.today; a property
\* that is undefined is dropped when the answer is serialised
PersonOf(today, keys) == [k \in {k \in DOMAIN keys : Has(today, keys[k])} |-> today[keys[k]]]

UpdatePersonal(name, args, keys) ==
  LET request == Request(name, args)
      today == WithPerson(data.today, args, keys)
  IN
  IF ~Loaded THEN Throw(request, NotLoaded)
  ELSE \E t \in Times :
         SaveAndReturn(request, [data EXCEPT !.today = today], t,
                       PersonOf(today, keys))

UpdatePerson(args) == UpdatePersonal("update_person", args, PersonKeys)
UpdateSpouse(args) == UpdatePersonal("update_spouse", args, SpouseKeys)

----------------------------------------------------------------------------
(* Deletes: delete_asset, delete_income, delete_expense, delete_priority,
   delete_milestone (delete_debt, delete_account and delete_plan are with
   their entities) *)

\* d.today.assets?.findIndex(...): undefined scans as no assets
AssetsOf(d) == IF Has(d.today, "assets") THEN d.today.assets ELSE <<>>

AssetNotFound(assetId) == <<"Asset not found: ", assetId>>

DeleteAsset(args) ==
  LET request == Request("delete_asset", args)
      idx == FindIndex(AssetsOf(data), args.assetId)
  IN
  IF ~Loaded THEN Throw(request, NotLoaded)
  ELSE IF idx = 0 THEN Throw(request, AssetNotFound(args.assetId))
  ELSE \E t \in Times :
         SaveAndReturn(request,
           [data EXCEPT !.today.assets = Splice(@, idx)], t,
           <<"Deleted asset: ", data.today.assets[idx].name>>)

\* findPlan, findIndex on plan[key].events, splice(idx, 1), saveData()
DeleteEvent(request, planId, key, id, notFound, deleted) ==
  LET p == PlanIndex(data, planId)
      events == EventsOf(data.plans[p], key)
      idx == FindIndex(events, id)
  IN
  IF ~Loaded THEN Throw(request, NotLoaded)
  ELSE IF p = 0 THEN Throw(request, PlanNotFound(planId))
  ELSE IF idx = 0 THEN Throw(request, notFound)
  ELSE \E t \in Times :
         SaveAndReturn(request,
           [data EXCEPT !.plans[p][key].events = Splice(@, idx)], t,
           <<deleted, events[idx].name>>)

DeleteIncome(args) ==
  DeleteEvent(Request("delete_income", args), args.planId, "income",
              args.incomeId, IncomeNotFound(args.incomeId), "Deleted income: ")

DeleteExpense(args) ==
  DeleteEvent(Request("delete_expense", args), args.planId, "expenses",
              args.expenseId, ExpenseNotFound(args.expenseId), "Deleted expense: ")

DeletePriority(args) ==
  DeleteEvent(Request("delete_priority", args), args.planId, "priorities",
              args.priorityId, PriorityNotFound(args.priorityId),
              "Deleted priority: ")

DeleteMilestone(args) ==
  LET request == Request("delete_milestone", args)
      p == PlanIndex(data, args.planId)
      idx == FindIndex(MilestonesOf(data.plans[p]), args.milestoneId)
  IN
  IF ~Loaded THEN Throw(request, NotLoaded)
  ELSE IF p = 0 THEN Throw(request, PlanNotFound(args.planId))
  ELSE IF idx = 0 THEN Throw(request, MilestoneNotFound(args.milestoneId))
  ELSE \E t \in Times :
         SaveAndReturn(request,
           [data EXCEPT !.plans[p].milestones = Splice(@, idx)], t,
           <<"Deleted milestone: ", data.plans[p].milestones[idx].name>>)

----------------------------------------------------------------------------
(* add_asset, and the list tools: list_accounts, list_debts, list_assets,
   list_income, list_expenses, list_priorities, list_milestones *)

\* type, name and amount are read from assetType, name and amount; balance
\* is set when args has it
NewAsset(args, t) ==
  Pick(args, {"name", "amount", "balance"}) @@
  (IF Has(args, "assetType") THEN [type |-> args.assetType] ELSE <<>>) @@
  [id |-> GenId("asset", t), owner |-> OrElse(args, "owner", "me")]

AddAsset(args) ==
  LET request == Request("add_asset", args) IN
  IF ~Loaded THEN Throw(request, NotLoaded)
  ELSE /\ Len(AssetsOf(data)) < MaxEvents
       /\ \E t \in Times :
            SaveAndReturn(request,
              [data EXCEPT !.today =
                 Put(@, "assets", Push(AssetsOf(data), NewAsset(args, t)))],
              t, NewAsset(args, t))

\* list.map((a) => ({ ...a, category }))
WithCategory(list, category) ==
  [i \in 1..Len(list) |-> Put(list[i], "category", category)]

\* the savings accounts, then the investment accounts
ListedAccounts(d) ==
  WithCategory(AccountsOf(d, "savingsAccounts"), "savings")
    \o WithCategory(AccountsOf(d, "investmentAccounts"), "investment")

ListAccounts ==
  LET request == Request("list_accounts", <<>>) IN
  IF ~Loaded THEN Throw(request, NotLoaded)
  ELSE Answer(request, ListedAccounts(data))

\* getData().today.debts ?? [], getData().today.assets ?? []
ListToday(name, key) ==
  LET request == Request(name, <<>>) IN
  IF ~Loaded THEN Throw(request, NotLoaded)
  ELSE Answer(request, IF Has(data.today, key) THEN data.today[key] ELSE <<>>)

ListDebts == ListToday("list_debts", "debts")
ListAssets == ListToday("list_assets", "assets")

\* plan.income?.events ?? [] (and expenses, priorities)
ListEvents(name, args, key) ==
  LET request == Request(name, args)
      p == PlanIndex(data, args.planId)
  IN
  IF ~Loaded THEN Throw(request, NotLoaded)
  ELSE IF p = 0 THEN Throw(request, PlanNotFound(args.planId))
  ELSE Answer(request, EventsOf(data.plans[p], key))

ListIncome(args) == ListEvents("list_income", args, "income")
ListExpenses(args) == ListEvents("list_expenses", args, "expenses")
ListPriorities(args) == ListEvents("list_priorities", args, "priorities")

\* plan.milestones ?? []
ListMilestones(args) ==
  LET request == Request("list_milestones", args)
      p == PlanIndex(data, args.planId)
  IN
  IF ~Loaded THEN Throw(request, NotLoaded)
  ELSE IF p = 0 THEN Throw(request, PlanNotFound(args.planId))
  ELSE Answer(request, MilestonesOf(data.plans[p]))

----------------------------------------------------------------------------
(* The other read-only cases: get_overview, list_plans, get_asset,
   get_expense, get_priority, get_progress; and the resource handlers *)

\* list.reduce((sum, a) => sum + (a[key] ?? 0), 0)
RECURSIVE SumFrom(_, _, _)
SumFrom(list, key, i) ==
  IF i > Len(list) THEN 0
  ELSE (IF Has(list[i], key) THEN list[i][key] ELSE 0) + SumFrom(list, key, i + 1)
\* d.today[name]?.reduce(...) ?? 0
Total(d, name, key) ==
  IF Has(d.today, name) THEN SumFrom(d.today[name], key, 1) ELSE 0

OverviewKeys ==
  [name |-> "yourName", age |-> "age", partnerStatus |-> "partnerStatus",
   spouseName |-> "spouseName", spouseAge |-> "spouseAge", location |-> "location"]

OverviewOf(d) ==
  LET totalSavings == Total(d, "savingsAccounts", "balance")
      totalInvestments == Total(d, "investmentAccounts", "balance")
      totalDebt == Total(d, "debts", "amount")
      totalAssetValue == Total(d, "assets", "amount")
      totalAssetLoans == Total(d, "assets", "balance")
  IN
  [meta |-> d.meta,
   personal |-> PersonOf(d.today, OverviewKeys),
   summary |->
     [totalSavings |-> totalSavings, totalInvestments |-> totalInvestments,
      totalLiquid |-> totalSavings + totalInvestments, totalDebt |-> totalDebt,
      totalAssetValue |-> totalAssetValue, totalAssetLoans |-> totalAssetLoans,
      estimatedNetWorth |->
        totalSavings + totalInvestments + totalAssetValue - totalDebt - totalAssetLoans],
   planCount |-> Len(d.plans),
   planNames |-> [i \in 1..Len(d.plans) |-> Pick(d.plans[i], {"id", "name", "active"})]]

GetOverview ==
  LET request == Request("get_overview", <<>>) IN
  IF ~Loaded THEN Throw(request, NotLoaded)
  ELSE Answer(request, OverviewOf(data))

PlanSummary(plan) ==
  Pick(plan, {"id", "name", "active", "icon", "lastUpdated"}) @@
  [milestonesCount |-> Len(MilestonesOf(plan)),
   incomeCount |-> Len(EventsOf(plan, "income")),
   expenseCount |-> Len(EventsOf(plan, "expenses")),
   prioritiesCount |-> Len(EventsOf(plan, "priorities"))]

ListPlans ==
  LET request == Request("list_plans", <<>>) IN
  IF ~Loaded THEN Throw(request, NotLoaded)
  ELSE Answer(request, [i \in 1..Len(data.plans) |-> PlanSummary(data.plans[i])])

GetAsset(args) ==
  LET request == Request("get_asset", args)
      i == FindIndex(AssetsOf(data), args.assetId)
  IN
  IF ~Loaded THEN Throw(request, NotLoaded)
  ELSE IF i = 0 THEN Throw(request, AssetNotFound(args.assetId))
  ELSE Answer(request, data.today.assets[i])

\* get_expense and get_priority
GetEvent(name, args, key, id, notFound) ==
  LET request == Request(name, args)
      p == PlanIndex(data, args.planId)
      events == EventsOf(data.plans[p], key)
      i == FindIndex(events, id)
  IN
  IF ~Loaded THEN Throw(request, NotLoaded)
  ELSE IF p = 0 THEN Throw(request, PlanNotFound(args.planId))
  ELSE IF i = 0 THEN Throw(request, notFound)
  ELSE Answer(request, events[i])

GetExpense(args) ==
  GetEvent("get_expense", args, "expenses", args.expenseId,
           ExpenseNotFound(args.expenseId))
GetPriority(args) ==
  GetEvent("get_priority", args, "priorities", args.priorityId,
           PriorityNotFound(args.priorityId))

\* getData().progress ?? { data: [] }
GetProgress ==
  LET request == Request("get_progress", <<>>) IN
  IF ~Loaded THEN Throw(request, NotLoaded)
  ELSE Answer(request, IF Has(data, "progress") THEN data.progress
                       ELSE [data |-> <<>>])

\* A uri is the sequence of the segments it is made of
OverviewUri == <<"projectionlab://overview">>
PlanUri(planId) == <<"projectionlab://plan/", planId>>
\* uri.match(/^projectionlab:\/\/plan\/(.+)$/): the id is not empty
IsPlanUri(uri) == Len(uri) = 2 /\ uri[1] = "projectionlab://plan/" /\ uri[2] # ""

\* the ListResources handler: no resources while no document is loaded
ListResources ==
  Answer(Request("resources/list", <<>>),
         IF ~Loaded THEN <<>>
         ELSE <<[uri |-> OverviewUri, name |-> <<"Financial Overview">>]>>
                \o [i \in 1..Len(data.plans) |->
                      [uri |-> PlanUri(data.plans[i].id),
                       name |-> <<"Plan: ", data.plans[i].name>>]])

\* a resource handler that throws: the request is answered with a protocol
\* error, not with a tool result
Reject(request, message) ==
  /\ req' = request
  /\ res' = [error |-> message]
  /\ UNCHANGED <<dataFilePath, data, disk, now, pending>>

ResourceOverview(d) ==
  LET totalSavings == Total(d, "savingsAccounts", "balance")
      totalInvestments == Total(d, "investmentAccounts", "balance")
      totalDebt == Total(d, "debts", "amount")
  IN
  [totalSavings |-> totalSavings, totalInvestments |-> totalInvestments,
   totalDebt |-> totalDebt,
   netWorth |-> totalSavings + totalInvestments - totalDebt,
   planCount |-> Len(d.plans)]

\* the ReadResource handler
ReadResource(uri) ==
  LET request == Request("resources/read", [uri |-> uri]) IN
  IF uri = OverviewUri
  THEN IF ~Loaded THEN Reject(request, NotLoaded)
       ELSE Answer(request, ResourceOverview(data))
  ELSE IF IsPlanUri(uri)
  THEN IF ~Loaded THEN Reject(request, NotLoaded)
       ELSE IF PlanIndex(data, uri[2]) = 0 THEN Reject(request, PlanNotFound(uri[2]))
       ELSE Answer(request, data.plans[PlanIndex(data, uri[2])])
  ELSE Reject(request, <<"Unknown resource: ">> \o uri)

----------------------------------------------------------------------------
(* The cases that have no action of their own above. Each of them begins
   with getData() or findPlan(), which throws while no document is loaded;
   they are called in that state only. *)

OtherTools ==
  {"update_asset",
   "add_progress_snapshot"}

CallUnloaded(name) ==
  /\ ~Loaded
  /\ Throw(Request(name, <<>>), NotLoaded)

----------------------------------------------------------------------------
(* A tool name the switch has no case for *)

UnknownToolName(name) == <<"Unknown tool: ", name>>

UnknownTool(name) == Throw(Request(name, <<>>), UnknownToolName(name))

----------------------------------------------------------------------------
(* Calls that overlap: a handler runs up to its await, is suspended while
   the file is read or written, and is resumed when the promise settles;
   another call's handler may run while it is suspended *)

\* the result text of a suspended call: a text fixed before the await, or
\* JSON.stringify of the debt the handler holds, read when it resumes. The
\* debt is the one at index at of today.debts, or obj once a delete_debt
\* or a load has taken it out of the document
TextReply(text) == [kind |-> "text", text |-> text]
DebtReply(at, obj) == [kind |-> "debt", at |-> at, obj |-> obj]
TextOf(reply, d) ==
  IF reply.kind = "text" THEN reply.text
  ELSE IF reply.at > 0 THEN d.today.debts[reply.at]
  ELSE reply.obj

\* the debts held by suspended handlers after today.debts lost index idx
AfterSplice(reply, d, idx) ==
  IF reply.kind # "debt" \/ reply.at < idx THEN reply
  ELSE IF reply.at = idx THEN DebtReply(0, d.today.debts[idx])
  ELSE DebtReply(reply.at - 1, reply.obj)
\* the debts held by suspended handlers after data was replaced by a load
AfterLoad(reply, d) ==
  IF reply.kind = "debt" /\ reply.at > 0
  THEN DebtReply(0, d.today.debts[reply.at]) ELSE reply

IsWrite(call) == call.kind = "write"
InFlight(path) ==
  \E k \in 1..Len(pending) :
    IsWrite(pending[k]) /\ pending[k].path = path /\ pending[k].phase = "writing"
\* two fs.writeFile calls on one file at the same time: either may leave
\* the file with a mix of both contents
Raced(calls, path) ==
  [k \in 1..Len(calls) |->
     IF IsWrite(calls[k]) /\ calls[k].path = path /\ calls[k].phase = "writing"
     THEN [calls[k] EXCEPT !.raced = TRUE] ELSE calls[k]]

\* saveData() from a handler that has changed the document to d: the
\* timestamp, JSON.stringify and the start of fs.writeFile, then the await
BeginSave(request, d, t, calls, reply) ==
  /\ now' = t
  /\ UNCHANGED <<dataFilePath, disk>>
  /\ IF dataFilePath = NullPath
     THEN /\ data' = d
          /\ req' = request
          /\ res' = ErrorResult(NothingToSave)
          /\ pending' = calls
     ELSE /\ data' = Stamp(d, t)
          /\ UNCHANGED <<req, res>>
          /\ pending' =
               Append(Raced(calls, dataFilePath),
                 [kind |-> "write", request |-> request, path |-> dataFilePath,
                  content |-> Stringify(Stamp(d, t)), phase |-> "writing",
                  raced |-> InFlight(dataFilePath), reply |-> reply])

\* set_data_file up to its await of fs.readFile
BeginSetDataFile(path) ==
  /\ Len(pending) < MaxPending
  /\ dataFilePath' = path
  /\ pending' = Append(pending,
       [kind |-> "read", request |-> Request("set_data_file", [path |-> path]),
        path |-> path])
  /\ UNCHANGED <<data, disk, now, req, res>>

\* what fs.readFile yields: the file's content, or a truncated one while a
\* write of the file is under way
ReadOutcomes(path) == {disk[path]} \cup (IF InFlight(path) THEN {Garbage} ELSE {})

\* set_data_file resumed: JSON.parse, data = the document, the result
EndLoad(k) ==
  /\ k \in 1..Len(pending)
  /\ pending[k].kind = "read"
  /\ req' = pending[k].request
  /\ UNCHANGED <<dataFilePath, disk, now>>
  /\ \E content \in ReadOutcomes(pending[k].path) :
       IF content = Absent
       THEN /\ data' = data
            /\ res' = ErrorResult(ReadFailed)
            /\ pending' = Splice(pending, k)
       ELSE IF ~Parses(content)
       THEN /\ data' = data
            /\ res' = ErrorResult(ParseFailed)
            /\ pending' = Splice(pending, k)
       ELSE /\ data' = Parse(content)
            /\ res' = Ok(<<"Data loaded from: ", pending[k].path>>)
            /\ pending' =
                 LET rest == Splice(pending, k) IN
                 [j \in 1..Len(rest) |->
                    IF IsWrite(rest[j]) /\ Loaded
                    THEN [rest[j] EXCEPT !.reply = AfterLoad(@, data)]
                    ELSE rest[j]]

\* update_debt up to its await of saveData()
BeginUpdateDebt(args) ==
  LET request == Request("update_debt", args)
      i == DebtIndex(data, args.debtId)
      debt == Assign(data.today.debts[i], args, UpdateDebtFields)
  IN
  IF ~Loaded THEN Throw(request, NotLoaded)
  ELSE IF i = 0 THEN Throw(request, DebtNotFound(args.debtId))
  ELSE /\ Len(pending) < MaxPending
       /\ \E t \in Times :
            BeginSave(request, [data EXCEPT !.today.debts[i] = debt], t,
                      pending, DebtReply(i, debt))

\* delete_debt up to its await of saveData()
BeginDeleteDebt(args) ==
  LET request == Request("delete_debt", args)
      idx == DebtIndex(data, args.debtId)
  IN
  IF ~Loaded THEN Throw(request, NotLoaded)
  ELSE IF idx = 0 THEN Throw(request, DebtNotFound(args.debtId))
  ELSE /\ Len(pending) < MaxPending
       /\ \E t \in Times :
            BeginSave(request, [data EXCEPT !.today.debts = Splice(@, idx)], t,
              [j \in 1..Len(pending) |->
                 IF IsWrite(pending[j])
                 THEN [pending[j] EXCEPT !.reply = AfterSplice(@, data, idx)]
                 ELSE pending[j]],
              TextReply(<<"Deleted debt: ", data.today.debts[idx].name>>))

\* fs.writeFile finishes: the file has the content, or the promise rejects
WriteDone(k) ==
  /\ k \in 1..Len(pending)
  /\ IsWrite(pending[k])
  /\ pending[k].phase = "writing"
  /\ UNCHANGED <<dataFilePath, data, now, req, res>>
  /\ IF Writable(pending[k].path)
     THEN /\ \E content \in {pending[k].content} \cup
                            (IF pending[k].raced THEN {Garbage} ELSE {}) :
               disk' = [disk EXCEPT ![pending[k].path] = content]
          /\ pending' = [pending EXCEPT ![k].phase = "written"]
     ELSE /\ disk' = disk
          /\ pending' = [pending EXCEPT ![k].phase = "failed"]

\* a handler that skips the await: it goes on whatever the write's state
Settled_NoAwait(call) == TRUE

\* await saveData(): the handler goes on once fs.writeFile has settled
Settled(call) == call.phase # "writing"

\* the handler resumed after saveData(): its return, or the catch block's
Respond(k) ==
  /\ k \in 1..Len(pending)
  /\ IsWrite(pending[k])
  /\ Settled(pending[k])
  /\ req' = pending[k].request
  /\ res' = IF pending[k].phase = "failed"
            THEN ErrorResult(WriteError(pending[k].path))
            ELSE Ok(TextOf(pending[k].reply, data))
  /\ pending' = Splice(pending, k)
  /\ UNCHANGED <<dataFilePath, data, disk, now>>

----------------------------------------------------------------------------
(* Specifications *)

PlanIdArgs == {"p1", "p2", "p0"} \cup {GenId("plan", t) : t \in 0..MaxClock}
PlanNameArgs == {"Copy"}

PlanPaths == {PathFull, PathLocked}

NextPlans ==
  \/ \E path \in PlanPaths : SetDataFile(path)
  \/ \E planId \in PlanIdArgs, newName \in PlanNameArgs : DuplicatePlan(planId, newName)
  \/ \E planId \in PlanIdArgs : DeletePlan(planId)

SpecPlans == Init /\ [][NextPlans]_vars

\* Optional properties of an arguments object, and their combinations
Opt(key, values) == {<<>>} \cup {key :> v : v \in values}

Chars_59 == <<"5", "9">>
Chars_soon == <<"s", "o", "o", "n">>

\* DateReference arguments, well-formed and malformed
StartArgs ==
  {[type |-> "year", value |-> Str(Chars_2059)],
   [type |-> "year", value |-> Str(Chars_59)],
   [type |-> "year", value |-> Num(2059)]}
EndArgs ==
  {[type |-> "keyword", value |-> Str(Chars_never), modifier |-> Num(5)],
   [type |-> "keyword", value |-> Str(Chars_soon)],
   [type |-> "keyword", value |-> Str(Chars_now), modifier |-> Str("maybe")]}

AddStartArgs == {[type |-> "year", value |-> Str(Chars_59)]}
AddEndArgs == {[type |-> "keyword", value |-> Str(Chars_soon)]}

\* The payloads are combined on an event that exists; a call that names a
\* missing plan or event carries one payload
UpdateIncomeArgs ==
  {[planId |-> "p1", incomeId |-> "i1"] @@ a @@ s @@ e :
     a \in Opt("amount", {0}),
     s \in Opt("start", StartArgs), e \in Opt("end", AddEndArgs)}
  \cup {[planId |-> "p1", incomeId |-> "i1", name |-> ""],
        [planId |-> "p1", incomeId |-> "i1", name |-> "", amount |-> 0],
        [planId |-> "p1", incomeId |-> "i1", frequency |-> "yearly"],
        [planId |-> "p0", incomeId |-> "i1", amount |-> 0],
        [planId |-> "p1", incomeId |-> "i0", amount |-> 0]}
AddIncomeArgs ==
  {[planId |-> "p1", type |-> "salary", name |-> "Bonus", amount |-> 5] @@ o :
     o \in Opt("owner", {"spouse"}) \cup Opt("start", AddStartArgs)
          \cup Opt("start", {[type |-> "year", value |-> Str(Chars_2059)]})}
  \cup {[planId |-> "p0", type |-> "salary", name |-> "Bonus", amount |-> 5]}
GetIncomeArgs ==
  {[planId |-> "p1", incomeId |-> "i1"], [planId |-> "p2", incomeId |-> "i1"],
   [planId |-> "p1", incomeId |-> "i0"], [planId |-> "p0", incomeId |-> "i1"]}

EventPaths == {PathFull}

NextIncome ==
  \/ \E path \in EventPaths : SetDataFile(path)
  \/ \E args \in GetIncomeArgs : GetIncome(args)
  \/ \E args \in UpdateIncomeArgs : UpdateIncome(args)
  \/ \E args \in AddIncomeArgs : AddIncome(args)

SpecIncome == Init /\ [][NextIncome]_vars

UpdateExpenseArgs ==
  {[planId |-> "p1", expenseId |-> "e1"] @@ a @@ s @@ e :
     a \in Opt("amount", {0}),
     s \in Opt("start", AddStartArgs), e \in Opt("end", EndArgs)}
  \cup {[planId |-> "p1", expenseId |-> "e1", name |-> ""],
        [planId |-> "p0", expenseId |-> "e1", amount |-> 0],
        [planId |-> "p1", expenseId |-> "e0", amount |-> 0]}
AddExpenseArgs ==
  {[planId |-> "p1", type |-> "other", name |-> "Trip", amount |-> 5] @@ s @@ e :
     s \in Opt("start", AddStartArgs), e \in Opt("end", AddEndArgs)}
  \cup {[planId |-> "p2", type |-> "other", name |-> "Trip", amount |-> 5],
        [planId |-> "p0", type |-> "other", name |-> "Trip", amount |-> 5]}

NextExpenses ==
  \/ \E path \in EventPaths : SetDataFile(path)
  \/ \E args \in UpdateExpenseArgs : UpdateExpense(args)
  \/ \E args \in AddExpenseArgs : AddExpense(args)

SpecExpenses == Init /\ [][NextExpenses]_vars

UpdatePriorityArgs ==
  {[planId |-> "p1", priorityId |-> "r1"] @@ a @@ s @@ e :
     a \in Opt("amount", {0}),
     s \in Opt("start", AddStartArgs), e \in Opt("end", EndArgs)}
  \cup {[planId |-> "p1", priorityId |-> "r1", mode |-> "target", employerMatch |-> 3],
        [planId |-> "p0", priorityId |-> "r1", amount |-> 0],
        [planId |-> "p1", priorityId |-> "r0", amount |-> 0]}
AddPriorityArgs ==
  {[planId |-> "p1", type |-> "401k", name |-> "Match"] @@ s @@ e :
     s \in Opt("start", AddStartArgs), e \in Opt("end", AddEndArgs)}
  \cup {[planId |-> "p2", type |-> "401k", name |-> "Match", accountId |-> "a2"],
        [planId |-> "p0", type |-> "401k", name |-> "Match"]}

NextPriorities ==
  \/ \E path \in EventPaths : SetDataFile(path)
  \/ \E args \in UpdatePriorityArgs : UpdatePriority(args)
  \/ \E args \in AddPriorityArgs : AddPriority(args)

SpecPriorities == Init /\ [][NextPriorities]_vars

\* Milestone criteria arguments
NetWorthNumber == [type |-> "netWorth", value |-> Num(1000000)]
NetWorthString == [type |-> "netWorth", value |-> Str("1000000")]
AccountRef(refId) == [type |-> "account", value |-> Num(500), refId |-> refId]
CriteriaArgs ==
  {<<NetWorthNumber>>, <<NetWorthString>>,
   <<AccountRef("a1")>>, <<AccountRef("a0")>>,
   <<NetWorthNumber, AccountRef("a0") @@ [logic |-> "and"]>>}

UpdateMilestoneArgs ==
  {[planId |-> "p1", milestoneId |-> "m1"] @@ n @@ c :
     n \in Opt("name", {""}), c \in Opt("criteria", CriteriaArgs)}
  \cup {[planId |-> "p0", milestoneId |-> "m1", name |-> ""],
        [planId |-> "p1", milestoneId |-> "m0", name |-> ""]}
AddMilestoneArgs ==
  {[planId |-> "p1", name |-> "FIRE"] @@ c :
     c \in Opt("criteria", {<<NetWorthString>>, <<AccountRef("a0")>>})}
  \cup {[planId |-> "p2", name |-> "FIRE", icon |-> "mdi-fire"],
        [planId |-> "p0", name |-> "FIRE"]}
GetMilestoneArgs ==
  {[planId |-> "p1", milestoneId |-> "m1"], [planId |-> "p1", milestoneId |-> "m0"],
   [planId |-> "p2", milestoneId |-> "m1"], [planId |-> "p0", milestoneId |-> "m1"]}

NextMilestones ==
  \/ \E path \in EventPaths : SetDataFile(path)
  \/ \E args \in GetMilestoneArgs : GetMilestone(args)
  \/ \E args \in UpdateMilestoneArgs : UpdateMilestone(args)
  \/ \E args \in AddMilestoneArgs : AddMilestone(args)

SpecMilestones == Init /\ [][NextMilestones]_vars

DebtIdArgs == {"d1", "d2", "d0"}
GetDebtArgs == [debtId : DebtIdArgs]
UpdateDebtArgs ==
  {[debtId |-> "d2"] @@ a @@ r :
     a \in Opt("amount", {0}), r \in Opt("interestRate", {0})}
  \cup {[debtId |-> "d0", amount |-> 0], [debtId |-> GenId("debt", 0), monthlyPayment |-> 7]}
AddDebtArgs ==
  {[debtType |-> "auto", name |-> "Loan", amount |-> 9, interestRate |-> 0]}
DeleteDebtArgs == [debtId : DebtIdArgs]
DebtPaths == {PathFull, PathLocked}

NextDebts ==
  \/ \E path \in DebtPaths : SetDataFile(path)
  \/ \E args \in GetDebtArgs : GetDebt(args)
  \/ \E args \in UpdateDebtArgs : UpdateDebt(args)
  \/ \E args \in AddDebtArgs : AddDebt(args)
  \/ \E args \in DeleteDebtArgs : DeleteDebt(args)

SpecDebts == Init /\ [][NextDebts]_vars

\* duplicate_plan next to update_income: copies of copies, and updates
\* addressed to a plan and to its copy
CopyIdArgs == {"p1"} \cup {GenId("plan", t) : t \in 0..MaxClock}
CopyUpdateArgs ==
  {[planId |-> planId, incomeId |-> "i1"] @@ a :
     planId \in CopyIdArgs, a \in {[amount |-> 0], [name |-> ""]}}

NextCopies ==
  \/ \E path \in EventPaths : SetDataFile(path)
  \/ \E planId \in CopyIdArgs, newName \in PlanNameArgs : DuplicatePlan(planId, newName)
  \/ \E args \in CopyUpdateArgs : UpdateIncome(args)
  \/ \E planId \in CopyIdArgs : GetIncome([planId |-> planId, incomeId |-> "i1"])
  \/ \E planId \in {"p2"} \cup CopyIdArgs : DeletePlan(planId)

SpecCopies == Init /\ [][NextCopies]_vars

\* Calls that may overlap
AsyncPaths == {PathFull}
AsyncUpdateArgs == {[debtId |-> "d2", monthlyPayment |-> 7]}
AsyncDeleteArgs == {[debtId |-> "d1"], [debtId |-> "d0"]}

NextAsync ==
  \/ \E path \in AsyncPaths : BeginSetDataFile(path)
  \/ \E k \in 1..MaxPending : EndLoad(k)
  \/ \E args \in AsyncUpdateArgs : BeginUpdateDebt(args)
  \/ \E args \in AsyncDeleteArgs : BeginDeleteDebt(args)
  \/ \E k \in 1..MaxPending : WriteDone(k)
  \/ \E k \in 1..MaxPending : Respond(k)

SpecAsync == Init /\ [][NextAsync]_vars

\* Calls that fail, of every kind, next to calls that succeed
ErrorPaths == {PathFull, PathLocked, PathGarbage, PathNoDir}
ErrorPlanArgs == {"p1", "p0"}
ErrorDebtArgs == {[debtId |-> "d1", amount |-> 0], [debtId |-> "d0", amount |-> 0]}
UnknownNames == {"get_everything"}

NextErrors ==
  \/ \E path \in ErrorPaths : SetDataFile(path)
  \/ \E planId \in ErrorPlanArgs : GetPlan(planId)
  \/ \E planId \in ErrorPlanArgs : DeletePlan(planId)
  \/ \E args \in ErrorDebtArgs : GetDebt([debtId |-> args.debtId])
  \/ \E args \in ErrorDebtArgs : UpdateDebt(args)
  \/ \E name \in UnknownNames : UnknownTool(name)

SpecErrors == Init /\ [][NextErrors]_vars

\* The account tools; add_account gives a savings account and an investment
\* account created in the same millisecond the same id
AccountIdArgs == {"a1", "a0", GenId("account", 0)}
AccountBalanceArgs == [accountId : AccountIdArgs, balance : {0}]
AccountNameArgs == [accountId : AccountIdArgs, name : {""}]
AddAccountArgs ==
  {[accountType |-> "savings", name |-> "Rainy day", balance |-> 1],
   [accountType |-> "401k", name |-> "Old job", balance |-> 2]}
AccountPaths == {PathFull}

NextAccounts ==
  \/ \E path \in AccountPaths : SetDataFile(path)
  \/ \E accountId \in AccountIdArgs : GetAccount([accountId |-> accountId])
  \/ \E args \in AccountBalanceArgs : UpdateAccountBalance(args)
  \/ \E args \in AccountNameArgs : RenameAccount(args)
  \/ \E args \in AddAccountArgs : AddAccount(args)
  \/ \E accountId \in AccountIdArgs : DeleteAccount([accountId |-> accountId])

SpecAccounts == Init /\ [][NextAccounts]_vars

\* Updates whose payload carries 0, false and the empty string
FalsyDebtArgs ==
  {[debtId |-> "d1"] @@ a @@ m :
     a \in Opt("amount", {0, 8}), m \in Opt("monthlyPayment", {0})}
  \cup {[debtId |-> "d0", amount |-> 0]}
FalsyStrategyArgs ==
  {[planId |-> "p1"] @@ g @@ e :
     g \in Opt("strategy", {"", "vpw"}), e \in Opt("enabled", {FALSE, TRUE})}
  \cup {[planId |-> "p0", enabled |-> FALSE]}
UpdatePaths == {PathFull}

NextUpdates ==
  \/ \E path \in UpdatePaths : SetDataFile(path)
  \/ \E debtId \in {"d1", "d0"} : GetDebt([debtId |-> debtId])
  \/ \E args \in FalsyDebtArgs : UpdateDebt(args)
  \/ \E planId \in {"p1", "p0"} : GetWithdrawalStrategy([planId |-> planId])
  \/ \E args \in FalsyStrategyArgs : UpdateWithdrawalStrategy(args)

SpecUpdates == Init /\ [][NextUpdates]_vars

\* Every tool, called while no set_data_file has succeeded: the paths are a
\* file that does not parse, a file that does not exist and a file in a
\* directory that does not exist; the first two can be written
UnloadedPaths == {PathGarbage, PathMissing, PathNoDir}
NoPlan == [planId |-> "p0"]
UnloadedStart == [type |-> "year", value |-> Str(Chars_2059)]

NextUnloaded ==
  \/ \E path \in UnloadedPaths : SetDataFile(path)
  \/ GetPlan("p0")
  \/ DuplicatePlan("p0", "Copy")
  \/ DeletePlan("p0")
  \/ GetIncome(NoPlan @@ [incomeId |-> "i1"])
  \/ UpdateIncome(NoPlan @@ [incomeId |-> "i1", amount |-> 0])
  \/ AddIncome(NoPlan @@ [type |-> "salary", name |-> "Bonus", amount |-> 5])
  \/ UpdateExpense(NoPlan @@ [expenseId |-> "e1", amount |-> 0])
  \/ AddExpense(NoPlan @@ [type |-> "other", name |-> "Trip", amount |-> 5])
  \/ UpdatePriority(NoPlan @@ [priorityId |-> "r1", amount |-> 0])
  \/ AddPriority(NoPlan @@ [type |-> "401k", name |-> "Match", start |-> UnloadedStart])
  \/ GetMilestone(NoPlan @@ [milestoneId |-> "m1"])
  \/ UpdateMilestone(NoPlan @@ [milestoneId |-> "m1", name |-> ""])
  \/ AddMilestone(NoPlan @@ [name |-> "FIRE"])
  \/ GetDebt([debtId |-> "d0"])
  \/ UpdateDebt([debtId |-> "d0", amount |-> 0])
  \/ \E args \in AddDebtArgs : AddDebt(args)
  \/ DeleteDebt([debtId |-> "d0"])
  \/ GetAccount([accountId |-> "a0"])
  \/ UpdateAccountBalance([accountId |-> "a0", balance |-> 0])
  \/ RenameAccount([accountId |-> "a0", name |-> ""])
  \/ AddAccount([accountType |-> "savings", name |-> "Rainy day", balance |-> 1])
  \/ DeleteAccount([accountId |-> "a0"])
  \/ GetWithdrawalStrategy(NoPlan)
  \/ UpdateWithdrawalStrategy(NoPlan @@ [enabled |-> FALSE])
  \/ DeleteAsset([assetId |-> "x0"])
  \/ DeleteIncome(NoPlan @@ [incomeId |-> "i1"])
  \/ DeleteExpense(NoPlan @@ [expenseId |-> "e1"])
  \/ DeletePriority(NoPlan @@ [priorityId |-> "r1"])
  \/ DeleteMilestone(NoPlan @@ [milestoneId |-> "m1"])
  \/ AddAsset([assetType |-> "car", name |-> "Bike", amount |-> 3])
  \/ UpdatePerson([name |-> "Eve"])
  \/ UpdateSpouse([age |-> 40])
  \/ GetOverview
  \/ ListPlans
  \/ GetAsset([assetId |-> "x0"])
  \/ GetExpense(NoPlan @@ [expenseId |-> "e1"])
  \/ GetPriority(NoPlan @@ [priorityId |-> "r1"])
  \/ GetProgress
  \/ GetPlanVariables(NoPlan)
  \/ UpdatePlanVariables(NoPlan @@ [inflation |-> 2])
  \/ GetMontecarloSettings(NoPlan)
  \/ UpdateMontecarloSettings(NoPlan @@ [trials |-> 100])
  \/ ListAccounts
  \/ ListDebts
  \/ ListAssets
  \/ ListIncome(NoPlan)
  \/ ListExpenses(NoPlan)
  \/ ListPriorities(NoPlan)
  \/ ListMilestones(NoPlan)
  \/ \E name \in OtherTools : CallUnloaded(name)

SpecUnloaded == Init /\ [][NextUnloaded]_vars

\* The delete tools, each on an id its list holds and on one it lacks; the
\* debts hold two entities of one id
DeletePaths == {PathTwins}

NextDeletes ==
  \/ \E path \in DeletePaths : SetDataFile(path)
  \/ \E accountId \in {"a1", "a2", "a0"} : DeleteAccount([accountId |-> accountId])
  \/ \E debtId \in {"d1", "d0"} : DeleteDebt([debtId |-> debtId])
  \/ \E assetId \in {"x1", "x0"} : DeleteAsset([assetId |-> assetId])
  \/ \E args \in {[planId |-> "p1", incomeId |-> "i1"],
                   [planId |-> "p1", incomeId |-> "i0"],
                   [planId |-> "p0", incomeId |-> "i1"]} : DeleteIncome(args)
  \/ \E expenseId \in {"e1", "e0"} :
       DeleteExpense([planId |-> "p1", expenseId |-> expenseId])
  \/ \E priorityId \in {"r1", "r0"} :
       DeletePriority([planId |-> "p1", priorityId |-> priorityId])
  \/ \E milestoneId \in {"m1", "m0"} :
       DeleteMilestone([planId |-> "p1", milestoneId |-> milestoneId])

SpecDeletes == Init /\ [][NextDeletes]_vars

\* The add tools and the list tools on a document that has none of the
\* lists when it is loaded
AddPaths == {PathBare}
Plan1 == [planId |-> "p1"]

\* the entities of the document's lists, counted
Added(d) ==
  Len(AccountsOf(d, "savingsAccounts")) + Len(AccountsOf(d, "investmentAccounts"))
    + Len(DebtsOf(d)) + Len(AssetsOf(d))
    + Len(EventsOf(d.plans[1], "income")) + Len(EventsOf(d.plans[1], "expenses"))
    + Len(EventsOf(d.plans[1], "priorities")) + Len(MilestonesOf(d.plans[1]))
Room == IF Loaded THEN Added(data) < MaxAdded ELSE TRUE

NextAdds ==
  \/ \E path \in AddPaths : SetDataFile(path)
  \/ Room /\ \E args \in AddAccountArgs : AddAccount(args)
  \/ Room /\ \E args \in AddDebtArgs : AddDebt(args)
  \/ Room /\ AddAsset([assetType |-> "car", name |-> "Bike", amount |-> 3])
  \/ Room /\ \E planId \in {"p1", "p0"} :
               AddIncome([planId |-> planId, type |-> "salary", name |-> "Bonus",
                          amount |-> 5])
  \/ Room /\ AddExpense(Plan1 @@ [type |-> "other", name |-> "Trip", amount |-> 5])
  \/ Room /\ AddPriority(Plan1 @@ [type |-> "401k", name |-> "Match"])
  \/ Room /\ AddMilestone(Plan1 @@ [name |-> "FIRE"])
  \/ ListAccounts
  \/ ListDebts
  \/ ListAssets
  \/ \E planId \in {"p1", "p0"} : ListIncome([planId |-> planId])
  \/ ListExpenses(Plan1)
  \/ ListPriorities(Plan1)
  \/ ListMilestones(Plan1)

SpecAdds == Init /\ [][NextAdds]_vars

\* The three settings records of a plan: p1 has variables and montecarlo
\* and lacks withdrawalStrategy, p2 has none of them
RecordPaths == {PathTuned}
Plan2 == [planId |-> "p2"]

NextRecords ==
  \/ \E path \in RecordPaths : SetDataFile(path)
  \/ \E args \in {Plan1, Plan2, NoPlan} : GetPlanVariables(args)
  \/ \E args \in {Plan1 @@ [inflation |-> 2], Plan2 @@ [loopYear |-> 2088],
                   Plan1, Plan2, NoPlan} : UpdatePlanVariables(args)
  \/ \E args \in {Plan1, Plan2} : GetWithdrawalStrategy(args)
  \/ \E args \in {Plan1 @@ [enabled |-> TRUE], Plan1 @@ [strategy |-> "vpw"], Plan1} :
       UpdateWithdrawalStrategy(args)
  \/ \E args \in {Plan1, Plan2} : GetMontecarloSettings(args)
  \/ \E args \in {Plan1 @@ [trials |-> 100], Plan2 @@ [mode |-> "normal"], Plan1} :
       UpdateMontecarloSettings(args)
  \/ \E args \in {<<>>, [name |-> "Eve"]} : UpdatePerson(args)
  \/ UpdateSpouse(<<>>)

SpecRecords == Init /\ [][NextRecords]_vars

\* Milestone criteria that name an account of the document, and the
\* deletion of accounts
RefPaths == {PathFull}

NextRefs ==
  \/ \E path \in RefPaths : SetDataFile(path)
  \/ \E milestoneId \in {"m1", "m0"} :
       GetMilestone(Plan1 @@ [milestoneId |-> milestoneId])
  \/ \E args \in {Plan1 @@ [milestoneId |-> "m1", criteria |-> <<AccountRef("a1")>>],
                   Plan1 @@ [milestoneId |-> "m1", name |-> ""]} :
       UpdateMilestone(args)
  \/ AddMilestone(Plan1 @@ [name |-> "FIRE", criteria |-> <<AccountRef("a2")>>])
  \/ \E accountId \in {"a1", "a2", "a0"} : DeleteAccount([accountId |-> accountId])

SpecRefs == Init /\ [][NextRefs]_vars

\* The read-only tools and the resource handlers, on a document that has
\* every list and on one that has no list and no settings record, next to
\* one tool that changes the document
ReadPaths == {PathFull, PathBare}
ReadUris == {OverviewUri, PlanUri("p1"), PlanUri("p0"), PlanUri(""), <<"file:///etc">>}

NextReads ==
  \/ \E path \in ReadPaths : SetDataFile(path)
  \/ GetOverview
  \/ ListPlans
  \/ \E planId \in {"p1", "p0"} : GetPlan(planId)
  \/ ListAccounts
  \/ \E accountId \in {"a1", "a0"} : GetAccount([accountId |-> accountId])
  \/ ListDebts
  \/ \E debtId \in {"d1", "d0"} : GetDebt([debtId |-> debtId])
  \/ ListAssets
  \/ \E assetId \in {"x1", "x0"} : GetAsset([assetId |-> assetId])
  \/ \E args \in {Plan1, NoPlan} : ListIncome(args)
  \/ \E incomeId \in {"i1", "i0"} : GetIncome(Plan1 @@ [incomeId |-> incomeId])
  \/ ListExpenses(Plan1)
  \/ \E expenseId \in {"e1", "e0"} : GetExpense(Plan1 @@ [expenseId |-> expenseId])
  \/ ListPriorities(Plan1)
  \/ \E priorityId \in {"r1", "r0"} :
       GetPriority(Plan1 @@ [priorityId |-> priorityId])
  \/ ListMilestones(Plan1)
  \/ \E milestoneId \in {"m1", "m0"} :
       GetMilestone(Plan1 @@ [milestoneId |-> milestoneId])
  \/ GetPlanVariables(Plan1)
  \/ GetWithdrawalStrategy(Plan1)
  \/ GetMontecarloSettings(Plan1)
  \/ GetProgress
  \/ ListResources
  \/ \E uri \in ReadUris : ReadResource(uri)
  \/ UpdatePerson([name |-> "Eve"])

SpecReads == Init /\ [][NextReads]_vars

\* Mutating calls that may overlap on a document that was loaded while no
\* call was suspended
NextRace ==
  \/ pending = <<>> /\ \E path \in AsyncPaths : SetDataFile(path)
  \/ \E args \in AsyncUpdateArgs : BeginUpdateDebt(args)
  \/ \E args \in AsyncDeleteArgs : BeginDeleteDebt(args)
  \/ \E k \in 1..MaxPending : WriteDone(k)
  \/ \E k \in 1..MaxPending : Respond(k)

SpecRace == Init /\ [][NextRace]_vars

----------------------------------------------------------------------------
(* Properties *)

Called(name) == req'.name = name
Calls(name) == req.name = name
Refused(message) == IsError(res) /\ res.text = <<"Error: ">> \o message

\* C1: delete_plan on a document with exactly one plan returns an error,
\* leaves the document unchanged and writes nothing; on a document with two
\* or more plans, deleting an existing plan (the file being writable)
\* succeeds, removes exactly the first plan with that id, keeps every other
\* plan, in order, and each of them is still found by its id.
C1_LastPlanProtection ==
  [][(Called("delete_plan") /\ Loaded) =>
       LET planId == req'.arguments.planId
           idx == PlanIndex(data, planId)
           n == Len(data.plans)
       IN
       /\ n = 1 => IsError(res') /\ data' = data /\ disk' = disk
       /\ (n >= 2 /\ idx > 0 /\ Writable(dataFilePath)) =>
            /\ ~IsError(res')
            /\ Len(data'.plans) = n - 1
            /\ \A j \in 1..n :
                 /\ j < idx => data'.plans[j] = data.plans[j]
                 /\ j > idx => data'.plans[j - 1] = data.plans[j]
                 /\ j # idx => PlanIndex(data', data.plans[j].id) > 0
            /\ Parse(disk'[dataFilePath]).plans = data'.plans
     ]_vars

\* C1's case: after one of two plans was deleted and written, deleting the
\* remaining plan is refused
C1_Witness ==
  /\ Calls("delete_plan")
  /\ Refused(LastPlan)
  /\ dataFilePath = PathFull
  /\ Len(data.plans) = 1
  /\ Parse(disk[PathFull]).plans = data.plans

\* C2: whenever a document is loaded it has at least one plan (every
\* document on disk at the start has one)
C2_AtLeastOnePlan == Loaded => Len(data.plans) >= 1

\* C2's case: a delete_plan call has succeeded and one plan remains
C2_Witness ==
  /\ Calls("delete_plan")
  /\ ~IsError(res)
  /\ Len(data.plans) = 1

----------------------------------------------------------------------------
(* Temporal references as the README and the tool schemas document them *)

Digits == {"0", "1", "2", "3", "4", "5", "6", "7", "8", "9"}
IsFourDigits(value) ==
  /\ value.t = "string"
  /\ Len(value.v) = 4
  /\ \A i \in 1..4 : value.v[i] \in Digits
Keywords ==
  {Str(Chars_now), Str(Chars_endOfPlan), Str(Chars_beforeCurrentYear), Str(Chars_never)}
ModifierOk(ref) ==
  Has(ref, "modifier") =>
    \/ ref.modifier.t = "number"
    \/ ref.modifier \in {Str("include"), Str("exclude")}
ValueOk(ref) ==
  /\ ref.type = "year" => IsFourDigits(ref.value)
  /\ ref.type = "keyword" => ref.value \in Keywords
WellFormed(ref) == ValueOk(ref) /\ ModifierOk(ref)

\* The event tools: the collection of the plan each works on and the
\* argument that names the event (the add tools name none)
EventTools ==
  [update_income |-> [list |-> "income", id |-> "incomeId"],
   update_expense |-> [list |-> "expenses", id |-> "expenseId"],
   update_priority |-> [list |-> "priorities", id |-> "priorityId"],
   add_income |-> [list |-> "income", id |-> ""],
   add_expense |-> [list |-> "expenses", id |-> ""],
   add_priority |-> [list |-> "priorities", id |-> ""]]
IsEventCall(request) == request.name \in DOMAIN EventTools
ListOf(d, request) ==
  EventsOf(d.plans[PlanIndex(d, request.arguments.planId)],
           EventTools[request.name].list)
\* the call names a plan, and an event when it updates one, that exist in d
Addressed(d, request) ==
  /\ PlanIndex(d, request.arguments.planId) > 0
  /\ EventTools[request.name].id # "" =>
       FindIndex(ListOf(d, request), request.arguments[EventTools[request.name].id]) > 0
RefKeys(request) == {"start", "end"} \cap DOMAIN request.arguments
AllWellFormed(request) == \A k \in RefKeys(request) : WellFormed(request.arguments[k])
\* no event of the list took ref as its key in this step
NotStored(request, key, ref) ==
  LET before == ListOf(data, request)
      after == ListOf(data', request)
  IN \A i \in 1..Len(after) :
       after[i][key] = ref => (i <= Len(before) /\ before[i][key] = ref)
\* an event call on a loaded document, naming an existing target, on a
\* writable file
EventCall ==
  /\ IsEventCall(req')
  /\ Loaded
  /\ Addressed(data, req')
  /\ Writable(dataFilePath)

\* C3: an income, expense or priority update or add whose start or end is a
\* reference of type "year" succeeds iff the value is a string of exactly
\* four digits (the rest of the payload being well formed); any other value
\* makes the call fail and the reference is not stored
C3_YearIsFourDigits ==
  [][EventCall =>
       \A k \in RefKeys(req') :
         LET ref == req'.arguments[k] IN
         ref.type = "year" =>
           /\ (IsFourDigits(ref.value) /\ AllWellFormed(req')) => ~IsError(res')
           /\ ~IsFourDigits(ref.value) =>
                IsError(res') /\ NotStored(req', k, ref)
     ]_vars

\* C4: an update or add whose start or end is a reference of type "keyword"
\* succeeds iff the value is one of now, endOfPlan, beforeCurrentYear, never
\* (the rest of the payload being well formed); any other string makes the
\* call fail and the reference is not stored
C4_KeywordInClosedSet ==
  [][EventCall =>
       \A k \in RefKeys(req') :
         LET ref == req'.arguments[k] IN
         ref.type = "keyword" =>
           /\ (ref.value \in Keywords /\ AllWellFormed(req')) => ~IsError(res')
           /\ ref.value \notin Keywords =>
                IsError(res') /\ NotStored(req', k, ref)
     ]_vars

\* C5: a start or end reference whose modifier is a number or one of
\* "include"/"exclude" is accepted (the payload being otherwise well
\* formed); any other modifier makes the call fail and the reference is not
\* stored
C5_ModifierChecked ==
  [][EventCall =>
       \A k \in RefKeys(req') :
         LET ref == req'.arguments[k] IN
         Has(ref, "modifier") =>
           /\ AllWellFormed(req') => ~IsError(res')
           /\ ~ModifierOk(ref) => IsError(res') /\ NotStored(req', k, ref)
     ]_vars

----------------------------------------------------------------------------
(* Milestone criteria as the tool schemas and the types document them *)

ListOrEmpty(obj, key) == IF Has(obj, key) THEN obj[key] ELSE <<>>
AccountIds(d) ==
  {ListOrEmpty(d.today, "savingsAccounts")[i].id :
     i \in 1..Len(ListOrEmpty(d.today, "savingsAccounts"))}
  \cup {ListOrEmpty(d.today, "investmentAccounts")[i].id :
          i \in 1..Len(ListOrEmpty(d.today, "investmentAccounts"))}
ShapeOk(criterion) == criterion.type = "netWorth" => criterion.value.t = "number"
RefOk(d, criterion) ==
  (criterion.type = "account" /\ Has(criterion, "refId")) =>
    criterion.refId \in AccountIds(d)
CriteriaOk(d, criteria) ==
  \A i \in 1..Len(criteria) : ShapeOk(criteria[i]) /\ RefOk(d, criteria[i])

MilestoneTools == {"update_milestone", "add_milestone"}
\* a milestone call that carries criteria, on a loaded document, naming an
\* existing plan (and milestone, when it updates one), on a writable file
CriteriaCall ==
  /\ req'.name \in MilestoneTools
  /\ Has(req'.arguments, "criteria")
  /\ Loaded
  /\ PlanIndex(data, req'.arguments.planId) > 0
  /\ req'.name = "update_milestone" =>
       FindIndex(MilestonesOf(data.plans[PlanIndex(data, req'.arguments.planId)]),
                 req'.arguments.milestoneId) > 0
  /\ Writable(dataFilePath)
\* no milestone of the plan took these criteria in this step
CriteriaNotSet(criteria) ==
  LET p == PlanIndex(data, req'.arguments.planId)
      before == MilestonesOf(data.plans[p])
      after == MilestonesOf(data'.plans[p])
  IN \A i \in 1..Len(after) :
       (Has(after[i], "criteria") /\ after[i].criteria = criteria) =>
         (i <= Len(before) /\ Has(before[i], "criteria")
            /\ before[i].criteria = criteria)

\* C6: add_milestone and update_milestone accept a "netWorth" criterion
\* whose value is a number (the criteria being otherwise valid) and reject
\* one whose value is a string: the call fails and the milestone's criteria
\* are not set
C6_NetWorthValueIsNumber ==
  [][CriteriaCall =>
       LET criteria == req'.arguments.criteria IN
       \A i \in 1..Len(criteria) :
         criteria[i].type = "netWorth" =>
           /\ CriteriaOk(data, criteria) => ~IsError(res')
           /\ criteria[i].value.t # "number" =>
                IsError(res') /\ CriteriaNotSet(criteria)
     ]_vars

\* C7: add_milestone and update_milestone accept an "account" criterion
\* that carries a refId iff the refId is the id of a savings or investment
\* account of the document (the criteria being otherwise valid); otherwise
\* the call fails and the criteria are not stored
C7_AccountRefResolves ==
  [][CriteriaCall =>
       LET criteria == req'.arguments.criteria IN
       \A i \in 1..Len(criteria) :
         (criteria[i].type = "account" /\ Has(criteria[i], "refId")) =>
           /\ CriteriaOk(data, criteria) => ~IsError(res')
           /\ criteria[i].refId \notin AccountIds(data) =>
                IsError(res') /\ CriteriaNotSet(criteria)
     ]_vars

----------------------------------------------------------------------------
(* Updates *)

UpdateTools ==
  {"update_income", "update_expense", "update_priority", "update_milestone"}
\* the payload carries a malformed start or end, or criteria that are not valid
Malformed(d, request) ==
  \/ IsEventCall(request) /\ ~AllWellFormed(request)
  \/ /\ request.name = "update_milestone"
     /\ Has(request.arguments, "criteria")
     /\ ~CriteriaOk(d, request.arguments.criteria)
\* the payload's fields that need no validation
PlainFields(request) ==
  DOMAIN request.arguments \cap
    {"amount", "name", "amountType", "mode", "contribution", "contributionType",
     "employerMatch", "employerMatchLimit"}

\* C8: an update whose payload holds a malformed start, end or criteria
\* next to other, valid fields fails, applies none of its fields and writes
\* no file
C8_AllOrNothing ==
  [][(/\ req'.name \in UpdateTools
      /\ Loaded
      /\ Malformed(data, req')
      /\ PlainFields(req') # {})
       => IsError(res') /\ data' = data /\ disk' = disk
     ]_vars

C10_DebtNotFound ==
  [][(/\ req'.name \in {"get_debt", "update_debt", "delete_debt"}
      /\ Loaded
      /\ \A i \in 1..Len(DebtsOf(data)) : DebtsOf(data)[i].id # req'.arguments.debtId)
       =>
       /\ IsError(res')
       /\ \E i \in 1..Len(res'.text) : res'.text[i] = req'.arguments.debtId
       /\ data' = data
       /\ disk' = disk
     ]_vars

\* C10's case: delete_debt was refused for an id no debt has, on a document
\* that holds debts, after an update was written
C10_Witness ==
  /\ Calls("delete_debt")
  /\ Refused(DebtNotFound("d0"))
  /\ Len(DebtsOf(data)) > 0
  /\ now > 0

----------------------------------------------------------------------------
(* Copies and generated ids *)

\* C11: duplicate_plan(P, newName) appends one plan that has the supplied
\* name, an id different from P's and, in every other property but
\* lastUpdated, P's value (the nested lists entity for entity); and an
\* update_income addressed to a plan id changes no plan that has another
\* id, so an update addressed to the copy never changes P, nor one
\* addressed to P the copy
C11_DuplicateIsIndependentCopy ==
  [][/\ (/\ Called("duplicate_plan")
         /\ Loaded
         /\ PlanIndex(data, req'.arguments.planId) > 0
         /\ Writable(dataFilePath))
          =>
          LET P == data.plans[PlanIndex(data, req'.arguments.planId)]
              copy == data'.plans[Len(data'.plans)]
          IN
          /\ ~IsError(res')
          /\ data'.plans = Append(data.plans, copy)
          /\ copy.name = req'.arguments.newName
          /\ copy.id # P.id
          /\ DOMAIN copy = DOMAIN P \cup {"lastUpdated"}
          /\ \A k \in DOMAIN P \ {"id", "name", "lastUpdated"} : copy[k] = P[k]
     /\ (Called("update_income") /\ Loaded /\ ~IsError(res'))
          =>
          /\ Len(data'.plans) = Len(data.plans)
          /\ \A j \in 1..Len(data.plans) :
               data.plans[j].id # req'.arguments.planId =>
                 data'.plans[j] = data.plans[j]
     ]_vars

Distinct(list) == \A i, j \in 1..Len(list) : list[i].id = list[j].id => i = j
NestedLists == {"income", "expenses", "priorities", "assets"}

\* C12: the ids of a document stay unique in each namespace: the plans,
\* the savings and investment accounts taken together, the debts, the
\* assets, and in every plan the events of each kind and the milestones
C12_IdsStayUnique ==
  Loaded =>
    /\ Distinct(data.plans)
    /\ Distinct(ListOrEmpty(data.today, "savingsAccounts")
                \o ListOrEmpty(data.today, "investmentAccounts"))
    /\ Distinct(DebtsOf(data))
    /\ Distinct(ListOrEmpty(data.today, "assets"))
    /\ \A p \in 1..Len(data.plans) :
         /\ Distinct(MilestonesOf(data.plans[p]))
         /\ \A key \in NestedLists : Distinct(EventsOf(data.plans[p], key))

----------------------------------------------------------------------------
(* Persistence and overlapping calls *)

\* C13: a mutating call returns a success result only once its own
\* fs.writeFile, of the document that holds its mutation, has completed:
\* the call answered is a suspended call whose write is written, never one
\* still writing or failed
C13_SuccessAfterWrite ==
  [][(/\ Len(pending') < Len(pending)
      /\ req'.name \in {"update_debt", "delete_debt"}
      /\ ~IsError(res'))
       =>
       \E k \in 1..Len(pending) :
         /\ pending' = Splice(pending, k)
         /\ pending[k].request = req'
         /\ pending[k].phase = "written"
         /\ req'.name = "update_debt" =>
              \E i \in 1..Len(Parse(pending[k].content).today.debts) :
                LET debt == Parse(pending[k].content).today.debts[i] IN
                /\ debt.id = req'.arguments.debtId
                /\ debt.monthlyPayment = req'.arguments.monthlyPayment
     ]_vars

\* C13's case: update_debt has returned a success while another call is
\* still suspended, and the file holds a document with the update
C13_Witness ==
  /\ Calls("update_debt")
  /\ ~IsError(res)
  /\ Len(pending) = 1
  /\ Parses(disk[PathFull])
  /\ \E i \in 1..Len(DebtsOf(Parse(disk[PathFull]))) :
       /\ DebtsOf(Parse(disk[PathFull]))[i].id = "d2"
       /\ Has(DebtsOf(Parse(disk[PathFull]))[i], "monthlyPayment")

\* C14: calls never overlap: while a call is suspended in its file write,
\* no other call is between its start and its response
C14_OneCallAtATime ==
  (\E k \in 1..Len(pending) : IsWrite(pending[k])) => Len(pending) <= 1

\* The failure the claim expects of a call, from the state it is made in:
\* <<>> when it expects none
ExpectedFailure(request) ==
  LET name == request.name
      args == request.arguments
  IN
  IF name = "set_data_file"
  THEN IF disk[args.path] = Absent THEN ReadFailed
       ELSE IF ~Parses(disk[args.path]) THEN ParseFailed
       ELSE <<>>
  ELSE IF name \in UnknownNames THEN UnknownToolName(name)
  ELSE IF ~Loaded THEN NotLoaded
  ELSE IF name \in {"get_plan", "delete_plan"} /\ PlanIndex(data, args.planId) = 0
  THEN PlanNotFound(args.planId)
  ELSE IF name = "delete_plan" /\ Len(data.plans) = 1 THEN LastPlan
  ELSE IF name \in {"get_debt", "update_debt"} /\ DebtIndex(data, args.debtId) = 0
  THEN DebtNotFound(args.debtId)
  ELSE IF name \in {"delete_plan", "update_debt"} /\ ~Writable(dataFilePath)
  THEN WriteError(dataFilePath)
  ELSE <<>>

\* C15: every failure raised while a tool call is handled (not found, last
\* plan, not loaded, unknown tool name, file read, write or parse error) comes
\* back as a result flagged isError whose text is "Error: " followed by the
\* error's message; every call comes back with a result, and a result is
\* flagged isError exactly when the call failed.
C15_FailuresAreErrorResults ==
  [][req' # req \/ res' # res \/ data' # data \/ dataFilePath' # dataFilePath =>
       LET message == ExpectedFailure(req') IN
       /\ Has(res', "text")
       /\ IF message = <<>>
          THEN ~IsError(res')
          ELSE IsError(res') /\ res'.text = <<"Error: ">> \o message]_vars

C15_Witness ==
  /\ Calls("update_debt")
  /\ dataFilePath = PathNoDir
  /\ Loaded
  /\ DebtIndex(data, req.arguments.debtId) # 0
  /\ Refused(WriteError(PathNoDir))

AddTools == {"add_income", "add_expense", "add_priority"}

\* C17: an add_income, add_expense or add_priority that succeeds creates an
\* event whose start is the supplied start when the call supplies one and
\* {type: "keyword", value: "now"} when it does not, and whose end is the
\* supplied end when the call supplies one and {type: "keyword", value:
\* "endOfPlan"} when it does not (stated for well-formed references).
C17_StartEndSuppliedOrDefault ==
  [][(req'.name \in AddTools /\ EventCall /\ AllWellFormed(req') /\ ~IsError(res')) =>
       LET after == ListOf(data', req')
           created == after[Len(after)]
       IN
       /\ Len(after) = Len(ListOf(data, req')) + 1
       /\ created.start = OrElse(req'.arguments, "start", KeywordNow)
       /\ created.end = OrElse(req'.arguments, "end", KeywordEndOfPlan)]_vars

\* README, Plan Income: update_income updates amount, name, frequency,
\* start/end timing, withhold, taxWithholding, isDividendIncome, yearlyChange
DocumentedIncomeFields ==
  {"frequency", "withhold", "taxWithholding", "isDividendIncome", "yearlyChange"}

\* C18: an update_income that succeeds writes every documented property of
\* its payload (frequency, withhold, taxWithholding, isDividendIncome,
\* yearlyChange) onto the income event, where a following get_income reads it.
C18_DocumentedFieldsApplied ==
  [][(Called("update_income") /\ EventCall /\ ~IsError(res')) =>
       LET after == ListOf(data', req')
           income == after[FindIndex(after, req'.arguments.incomeId)]
       IN \A k \in DocumentedIncomeFields \cap DOMAIN req'.arguments :
            Has(income, k) /\ income[k] = req'.arguments[k]]_vars

AccountTools ==
  {"get_account", "update_account_balance", "rename_account", "delete_account"}

\* what the call does to the account at index idx of list: before and after
\* are the list in the document before and after the call
ActsOn(request, result, before, after, idx) ==
  CASE request.name = "get_account" ->
         after = before /\ result = Ok(before[idx])
    [] request.name = "update_account_balance" ->
         after = [before EXCEPT ![idx] = Put(@, "balance", request.arguments.balance)]
    [] request.name = "rename_account" ->
         after = [before EXCEPT ![idx] = Put(@, "name", request.arguments.name)]
    [] request.name = "delete_account" ->
         after = Splice(before, idx)

\* C19: get_account, update_account_balance, rename_account and
\* delete_account look the accountId up in the savings accounts first and in
\* the investment accounts second: with the id in the savings accounts (and
\* the more so in both lists) the call acts on the first savings account
\* with the id and leaves the investment accounts as they are; with the id
\* in the investment accounts only it acts on the first of them; with the id
\* in neither list it fails with "Account not found: <id>" and changes nothing.
C19_SavingsBeforeInvestment ==
  [][(req'.name \in AccountTools /\ Loaded) =>
       LET accountId == req'.arguments.accountId
           savings == AccountsOf(data, "savingsAccounts")
           investment == AccountsOf(data, "investmentAccounts")
           s == FindIndex(savings, accountId)
           v == FindIndex(investment, accountId)
       IN
       IF s > 0
       THEN /\ AccountsOf(data', "investmentAccounts") = investment
            /\ ActsOn(req', res', savings, AccountsOf(data', "savingsAccounts"), s)
       ELSE IF v > 0
       THEN /\ AccountsOf(data', "savingsAccounts") = savings
            /\ ActsOn(req', res', investment, AccountsOf(data', "investmentAccounts"), v)
       ELSE /\ IsError(res')
            /\ res'.text = <<"Error: ">> \o AccountNotFound(accountId)
            /\ data' = data /\ disk' = disk]_vars

\* delete_account has removed a savings account whose id an investment
\* account has too
C19_Witness ==
  /\ Calls("delete_account")
  /\ ~IsError(res)
  /\ res.text[1] = "Deleted savings account: "
  /\ FindIndex(AccountsOf(data, "investmentAccounts"), req.arguments.accountId) > 0

\* the entity an update_debt or update_withdrawal_strategy call addresses in
\* d, and the fields the operation recognises
UpdateTarget(d, request) ==
  IF request.name = "update_debt"
  THEN DebtsOf(d)[DebtIndex(d, request.arguments.debtId)]
  ELSE StrategyOf(d.plans[PlanIndex(d, request.arguments.planId)])
UpdateTargetExists(d, request) ==
  IF request.name = "update_debt"
  THEN DebtIndex(d, request.arguments.debtId) > 0
  ELSE PlanIndex(d, request.arguments.planId) > 0
RecognisedFields(request) ==
  IF request.name = "update_debt" THEN UpdateDebtFields ELSE UpdateStrategyFields

C16_NotLoadedBeforeSetDataFile ==
  [][~Loaded =>
       IF req'.name = "set_data_file"
       THEN IsError(res') => (data' = data /\ disk' = disk)
       ELSE /\ IsError(res') /\ res'.text = <<"Error: ">> \o NotLoaded
            /\ data' = data /\ disk' = disk /\ dataFilePath' = dataFilePath]_vars

\* add_debt refused after a set_data_file that failed and left its path
\* behind
C16_Witness ==
  /\ Calls("add_debt")
  /\ Refused(NotLoaded)
  /\ dataFilePath = PathMissing
  /\ ~Loaded
  /\ disk = InitialDisk

\* The delete tools: the argument that carries the id, and the list searched
\* (delete_account searches two)
DeleteTools ==
  [delete_account |-> [id |-> "accountId", list |-> "savingsAccounts"],
   delete_debt |-> [id |-> "debtId", list |-> "debts"],
   delete_asset |-> [id |-> "assetId", list |-> "assets"],
   delete_income |-> [id |-> "incomeId", list |-> "income"],
   delete_expense |-> [id |-> "expenseId", list |-> "expenses"],
   delete_priority |-> [id |-> "priorityId", list |-> "priorities"],
   delete_milestone |-> [id |-> "milestoneId", list |-> "milestones"]]
TodayDeletes == {"delete_account", "delete_debt", "delete_asset"}
DeletedId(request) == request.arguments[DeleteTools[request.name].id]

\* the entities of list key the call addresses in d, << >> when the plan or
\* the list is missing
EntitiesOf(d, request, key) ==
  IF request.name \in TodayDeletes THEN ListOrEmpty(d.today, key)
  ELSE IF PlanIndex(d, request.arguments.planId) = 0 THEN <<>>
  ELSE IF key = "milestones"
  THEN MilestonesOf(d.plans[PlanIndex(d, request.arguments.planId)])
  ELSE EventsOf(d.plans[PlanIndex(d, request.arguments.planId)], key)

\* the list the entity is to be removed from
DeleteKey(d, request) ==
  IF request.name = "delete_account"
     /\ FindIndex(ListOrEmpty(d.today, "savingsAccounts"), DeletedId(request)) = 0
  THEN "investmentAccounts"
  ELSE DeleteTools[request.name].list

\* d apart from that list and from meta.lastUpdated
ApartFrom(d, request, key) ==
  LET p == PlanIndex(d, request.arguments.planId) IN
  [(IF request.name \in TodayDeletes THEN [d EXCEPT !.today = Put(@, key, <<>>)]
    ELSE IF key = "milestones" THEN [d EXCEPT !.plans[p] = Put(@, key, <<>>)]
    ELSE [d EXCEPT !.plans[p] = WithEvents(@, key, <<>>)])
   EXCEPT !.meta.lastUpdated = 0]

\* C21: a delete operation (account, debt, asset, income, expense,
\* priority, milestone) whose id its list holds removes exactly one entity,
\* the first of the list with that id, keeps the other entities of the list
\* in their order, leaves every other list (and the rest of the document but
\* meta.lastUpdated) as it was and, the file being writable, writes the
\* document and returns the removed entity's name; when the plan or the id
\* is absent it fails, removes nothing and writes nothing.
C21_DeleteRemovesExactlyOne ==
  [][(req'.name \in DOMAIN DeleteTools /\ Loaded) =>
       LET key == DeleteKey(data, req')
           before == EntitiesOf(data, req', key)
           after == EntitiesOf(data', req', key)
           idx == FindIndex(before, DeletedId(req'))
       IN
       IF idx = 0
       THEN IsError(res') /\ data' = data /\ disk' = disk
       ELSE /\ Len(after) = Len(before) - 1
            /\ \A j \in 1..Len(after) :
                 after[j] = IF j < idx THEN before[j] ELSE before[j + 1]
            /\ \A j \in 1..(idx - 1) : before[j].id # DeletedId(req')
            /\ ApartFrom(data', req', key) = ApartFrom(data, req', key)
            /\ Writable(dataFilePath) =>
                 /\ ~IsError(res')
                 /\ res'.text[2] = before[idx].name
                 /\ disk' = [disk EXCEPT ![dataFilePath] = Stringify(data')]]_vars

\* delete_debt has removed the first of two debts of one id, which stood
\* between two debts that stay
C21_Witness ==
  /\ Calls("delete_debt")
  /\ ~IsError(res)
  /\ res.text = <<"Deleted debt: ", Debt1.name>>
  /\ DebtsOf(data) = <<Debt2, Debt1Twin>>

----------------------------------------------------------------------------
(* Adds and lists *)

\* The add tools and the list each of them pushes to (add_account pushes to
\* one of two), and the list tools
AddLists ==
  [add_account |-> "savingsAccounts", add_debt |-> "debts", add_asset |-> "assets",
   add_income |-> "income", add_expense |-> "expenses",
   add_priority |-> "priorities", add_milestone |-> "milestones"]
TodayAdds == {"add_account", "add_debt", "add_asset"}
ListTools ==
  [list_accounts |-> "savingsAccounts", list_debts |-> "debts",
   list_assets |-> "assets", list_income |-> "income", list_expenses |-> "expenses",
   list_priorities |-> "priorities", list_milestones |-> "milestones"]
TodayLists == {"list_accounts", "list_debts", "list_assets"}

OwningKey(request) ==
  IF request.name = "add_account" /\ request.arguments.accountType # "savings"
  THEN "investmentAccounts"
  ELSE AddLists[request.name]

\* list key of the document (of the plan the call names, for a plan's list)
ListAt(d, request, key) ==
  IF request.name \in TodayAdds \cup TodayLists THEN ListOrEmpty(d.today, key)
  ELSE IF key = "milestones"
  THEN MilestonesOf(d.plans[PlanIndex(d, request.arguments.planId)])
  ELSE EventsOf(d.plans[PlanIndex(d, request.arguments.planId)], key)

\* an add tool is called on a loaded document and, for a plan's list, on a
\* plan the document has
Adding(request) ==
  /\ Loaded
  /\ request.name \in DOMAIN AddLists
  /\ IF request.name \in TodayAdds THEN TRUE
     ELSE PlanIndex(data, request.arguments.planId) # 0

\* d apart from the list the add tool pushes to and from meta.lastUpdated
ApartFromOwning(d, request) ==
  LET p == PlanIndex(d, request.arguments.planId)
      key == OwningKey(request)
  IN
  [(IF request.name \in TodayAdds THEN [d EXCEPT !.today = Put(@, key, <<>>)]
    ELSE IF key = "milestones" THEN [d EXCEPT !.plans[p] = Put(@, key, <<>>)]
    ELSE [d EXCEPT !.plans[p] = WithEvents(@, key, <<>>)])
   EXCEPT !.meta.lastUpdated = 0]

\* the add tool has pushed one entity to the end of its list and changed
\* nothing else; its answer, when it is not an error, is that entity
Appended(request) ==
  LET old == ListAt(data, request, OwningKey(request))
      new == ListAt(data', request, OwningKey(request))
  IN
  /\ Len(new) = Len(old) + 1
  /\ SubSeq(new, 1, Len(old)) = old
  /\ ApartFromOwning(data', request) = ApartFromOwning(data, request)
  /\ ~IsError(res') => res'.text = new[Len(new)]

\* what the list tool that goes with the add tool answers on d, and the
\* entity as that tool shows it
ListingOf(d, request) ==
  IF request.name = "add_account" THEN ListedAccounts(d)
  ELSE ListAt(d, request, OwningKey(request))
AsListed(request, entity) ==
  IF request.name # "add_account" THEN entity
  ELSE Put(entity, "category",
           IF OwningKey(request) = "savingsAccounts" THEN "savings" ELSE "investment")

\* Every add operation appends the new entity at the end of its owning list
\* and leaves the entities already in it unchanged, and the list operation
\* of the entity's kind returns the entities in insertion order: the entity
\* added comes last in its answer
C22_ListsInInsertionOrder ==
  [][Adding(req') =>
       LET new == ListAt(data', req', OwningKey(req')) IN
       /\ Appended(req')
       /\ ListingOf(data', req') =
            Append(ListingOf(data, req'), AsListed(req', new[Len(new)]))]_vars

\* C22: every add operation appends the new entity at the end of its owning
\* list (creating the list when it is absent) and leaves the entities
\* already in that list, their order and the rest of the document
\* unchanged; list_debts, list_assets, list_income, list_expenses,
\* list_priorities and list_milestones return their list as it is, so in
\* insertion order, and list_accounts returns the savings accounts in
\* insertion order followed by the investment accounts in insertion order.
C22_AddAppendsListReturnsLists ==
  [][/\ Adding(req') => Appended(req')
     /\ (Loaded /\ req'.name \in DOMAIN ListTools /\ ~IsError(res')) =>
          /\ UNCHANGED <<data, disk>>
          /\ res'.text =
               IF req'.name = "list_accounts"
               THEN WithCategory(ListAt(data, req', "savingsAccounts"), "savings")
                      \o WithCategory(ListAt(data, req', "investmentAccounts"),
                                      "investment")
               ELSE ListAt(data, req', ListTools[req'.name])]_vars

\* list_accounts has answered with a savings account created at time 1
\* before an investment account created at time 0
C22_Witness ==
  /\ Calls("list_accounts")
  /\ ~IsError(res)
  /\ Len(res.text) = 2
  /\ res.text[1].id = GenId("account", 1) /\ res.text[1].category = "savings"
  /\ res.text[2].id = GenId("account", 0) /\ res.text[2].category = "investment"

----------------------------------------------------------------------------
(* Settings records *)

SettingsTools ==
  [update_plan_variables |-> [key |-> "variables", fields |-> PlanVariableFields],
   update_withdrawal_strategy |->
     [key |-> "withdrawalStrategy", fields |-> UpdateStrategyFields],
   update_montecarlo_settings |-> [key |-> "montecarlo", fields |-> MontecarloFields]]

\* plan without its property key
Omit(plan, key) == [k \in DOMAIN plan \ {key} |-> plan[k]]

\* C23: update_plan_variables, update_withdrawal_strategy and
\* update_montecarlo_settings, called on a plan the document has, merge by
\* key: the plan has the record afterwards (created when it was absent), the
\* record's keys are its previous keys and the payload's, each payload key
\* has the payload's value, every other key its previous value, and the
\* rest of the plan (the other two records among it) and every other plan
\* are as they were.
C23_SettingsMergeByKey ==
  [][(Loaded /\ req'.name \in DOMAIN SettingsTools
        /\ PlanIndex(data, req'.arguments.planId) # 0) =>
       LET tool == SettingsTools[req'.name]
           args == req'.arguments
           p == PlanIndex(data, args.planId)
           old == RecordOf(data.plans[p], tool.key)
           new == RecordOf(data'.plans[p], tool.key)
           payload == DOMAIN args \cap tool.fields
       IN
       /\ Has(data'.plans[p], tool.key)
       /\ DOMAIN new = DOMAIN old \cup payload
       /\ \A k \in payload : new[k] = args[k]
       /\ \A k \in DOMAIN old \ payload : new[k] = old[k]
       /\ Omit(data'.plans[p], tool.key) = Omit(data.plans[p], tool.key)
       /\ Len(data'.plans) = Len(data.plans)
       /\ \A q \in 1..Len(data.plans) : q # p => data'.plans[q] = data.plans[q]]_vars

\* update_plan_variables has set inflation on a plan whose variables had
\* startYear and inflation, after update_montecarlo_settings added trials to
\* its montecarlo record and update_withdrawal_strategy created its
\* withdrawalStrategy
C23_Witness ==
  /\ Loaded
  /\ Calls("update_plan_variables")
  /\ ~IsError(res)
  /\ data.plans[1].variables = [startYear |-> 2024, inflation |-> 2]
  /\ data.plans[1].montecarlo = [iterations |-> 500, trials |-> 100]
  /\ Has(data.plans[1], "withdrawalStrategy")

\* the update tools that are called with their identifying arguments only,
\* and those arguments
IdentifiedBy ==
  [update_person |-> {}, update_spouse |-> {},
   update_plan_variables |-> {"planId"}, update_withdrawal_strategy |-> {"planId"},
   update_montecarlo_settings |-> {"planId"}]

\* C24: an update operation called with only its identifying arguments (no
\* optional field supplied) that succeeds persists a document that differs
\* from the document as it was loaded in meta.lastUpdated and in nothing
\* else.
C24_IdentityUpdateChangesOnlyTimestamp ==
  [][(Loaded /\ req'.name \in DOMAIN IdentifiedBy
        /\ DOMAIN req'.arguments = IdentifiedBy[req'.name] /\ ~IsError(res')) =>
       Stamp(Parse(disk'[dataFilePath]), 0) = Stamp(data, 0)]_vars

----------------------------------------------------------------------------
(* One temporal reference, six operations *)

\* the reference the call's entity holds under key after the call: the
\* entity is the last of the list for an add tool, the one named for an
\* update tool
StoredAs(request, key) ==
  LET after == ListOf(data', request)
      idArg == EventTools[request.name].id
  IN
  IF idArg = "" THEN after[Len(after)][key]
  ELSE after[FindIndex(after, request.arguments[idArg])][key]

\* the references the six operations leave on their entity when each is
\* given ref as its start (or end)
EmbeddedBy(key, ref) ==
  LET args == (key :> ref) IN
  {NewIncome(args, 0)[key], NewExpense(args, 0)[key], NewPriority(args, 0)[key],
   Assign(Income1, args, UpdateIncomeFields)[key],
   Assign(Expense1, args, UpdateExpenseFields)[key],
   Assign(Priority1, args, UpdatePriorityFields)[key]}

\* C25: a start or end reference gets the same outcome whichever operation
\* embeds it: a call of update_income, update_expense, update_priority,
\* add_income, add_expense or add_priority that supplies it is accepted by
\* all or by none, and the reference its entity then holds is the one every
\* one of the six operations stores for that value.
C25_SameOutcomeInEveryOperation ==
  [][EventCall =>
       /\ ~IsError(res')
       /\ \A key \in RefKeys(req') :
            EmbeddedBy(key, req'.arguments[key]) = {StoredAs(req', key)}]_vars

----------------------------------------------------------------------------
(* References from milestone criteria to accounts *)

\* every criterion of type "account" that carries a refId, in every
\* milestone of every plan of d, names a savings or investment account of d
RefsResolve(d) ==
  \A p \in 1..Len(d.plans) :
    \A m \in 1..Len(MilestonesOf(d.plans[p])) :
      LET milestone == MilestonesOf(d.plans[p])[m]
          criteria == IF Has(milestone, "criteria") THEN milestone.criteria ELSE <<>>
      IN
      \A c \in 1..Len(criteria) :
        (criteria[c].type = "account" /\ Has(criteria[c], "refId")) =>
          criteria[c].refId \in AccountIds(d)

\* C26: in every reachable state, every milestone criterion of type account
\* that carries a refId names an id present in the savings or investment
\* accounts (it does in the documents loaded); add_milestone,
\* update_milestone and delete_account keep it so.
C26_CriteriaNameExistingAccounts == IF Loaded THEN RefsResolve(data) ELSE TRUE

----------------------------------------------------------------------------
(* The configured path and the document in memory *)

\* C27: the configured path and the in-memory document belong together:
\* every file write goes to the configured path and stores a document that
\* was loaded from that path, so the file it overwrites holds the document
\* that is in memory when the call begins (calls handled one at a time keep
\* a loaded document and its file equal); in particular no mutating call
\* after a failed set_data_file writes the document of an earlier load to
\* the new path.
C27_WritesStoreTheDocumentOfThePath ==
  [][\A p \in Paths :
       disk'[p] # disk[p] =>
         /\ p = dataFilePath
         /\ Parses(disk[p])
         /\ Parse(disk[p]) = data]_vars

\* C28: a tool call that returns an error result leaves the in-memory
\* document exactly as it was before the call, also when what failed is
\* the file write; and after every completed call on a loaded document the
\* in-memory document and the file at the configured path agree apart from
\* meta.lastUpdated.
C28_ErrorsLeaveMemoryAndFileAgree ==
  [][/\ IsError(res') => data' = data
     /\ data' # NullData =>
          /\ Parses(disk'[dataFilePath'])
          /\ Stamp(Parse(disk'[dataFilePath']), 0) = Stamp(data', 0)]_vars

----------------------------------------------------------------------------
(* Read-only operations *)

ReadOnlyOperations ==
  {"get_overview", "list_plans", "get_plan", "list_accounts", "get_account",
   "list_debts", "get_debt", "list_assets", "get_asset", "list_income",
   "get_income", "list_expenses", "get_expense", "list_priorities",
   "get_priority", "list_milestones", "get_milestone", "get_plan_variables",
   "get_withdrawal_strategy", "get_montecarlo_settings", "get_progress",
   "resources/list", "resources/read"}

\* C29: the read-only operations (get_overview, every list_* and get_*
\* tool, the resource list and read handlers) never change the in-memory
\* document, a missing list or record stays missing, and they never write
\* the file (nor change the configured path), whether they answer or fail.
C29_ReadsChangeNothing ==
  [][req'.name \in ReadOnlyOperations =>
       /\ data' = data
       /\ disk' = disk
       /\ dataFilePath' = dataFilePath]_vars

\* list_debts has answered with no debts on a document that has no debts
\* list, and the document still has none, in memory and in its file
C29_Witness ==
  /\ Loaded
  /\ Calls("list_debts")
  /\ ~IsError(res)
  /\ res.text = <<>>
  /\ ~Has(data.today, "debts")
  /\ ~Has(Parse(disk[dataFilePath]).today, "debts")

\* C30: when a second mutating call was handled while a first one was
\* suspended in its file write then, once both calls have completed, the
\* file holds the in-memory document with both mutations applied: whenever
\* no call is suspended, the file at the configured path holds the document
\* that is in memory (no completed mutation is lost, no older snapshot has
\* overwritten a newer one).
C30_FileHoldsEveryCompletedMutation ==
  (Loaded /\ pending = <<>>) =>
    /\ Parses(disk[dataFilePath])
    /\ Parse(disk[dataFilePath]) = data

====
